---- MODULE Spec2Model ----
(***************************************************************************)
(* The queue-mediated telemetry pipeline of the IoT temperature monitoring *)
(* system: Ingestor -> TelemetryQueue -> Worker -> EventsQueue -> Executor *)
(* -> PostgreSQL tables and webhook notifications.                         *)
(*                                                                         *)
(* Temperatures and thresholds are integers.  Wall-clock stamps that no    *)
(* code path reads back (processed_at, created_at, the timestamp of a      *)
(* trend event) are left out of the records.                               *)
(***************************************************************************)
EXTENDS Integers, Sequences, FiniteSets, TLC

\* ------------------------------------------------------------------ bounds

\* Transient failures (a thrown receive, delete, Redis, SQL or send call, or a
\* visibility timeout that elapses while the consumer still holds the item).
MaxFaults == 1
\* Temperatures and thresholds of the function-level checks: -MaxTemp..MaxTemp.
MaxTemp == 3
\* Rows of the telemetry_readings table drawn for the trend checks.
MaxRows == 4
\* Actions in the list of an event that did not come from the Worker.
MaxActions == 2

\* ------------------------------------------------------- shared/config.js

\* config.worker.maxMessages / config.executor.maxMessages
\* (WORKER_MAX_MESSAGES, EXECUTOR_MAX_MESSAGES in the environment).
maxMessages == 2
trendMaxReadings == 5
trendMinReadings == 3
trendMinRising == 2
trendMinIncrease == 2
defaultWarning == -10
defaultCritical == -5
defaultTarget == -18

\* DECIMAL(5,2), the type of every temperature column of the schema.
decimalPrecision == 5
decimalScale == 2

NORMAL == "NORMAL"
WARNING == "WARNING"
CRITICAL == "CRITICAL"
TREND_ANOMALY == "TREND_ANOMALY"
alertTypes == {NORMAL, WARNING, CRITICAL, TREND_ANOMALY}

LOG == "LOG"
NOTIFY_WARNING == "NOTIFY_WARNING"
NOTIFY_CRITICAL == "NOTIFY_CRITICAL"
ADJUST_TEMPERATURE == "ADJUST_TEMPERATURE"
TREND_ALERT == "TREND_ALERT"
actionTypes == {LOG, NOTIFY_WARNING, NOTIFY_CRITICAL, ADJUST_TEMPERATURE, TREND_ALERT}

\* ------------------------------------------------------------- processes

Workers == {"w1", "w2"}
Executors == {"x1", "x2"}
Ships == {"ship_1", "ship_2"}
Components == {"warning", "critical", "target"}

\* ------------------------------------------------- strings held by Redis

\* A Redis reply is a string, modelled as the sequence of its characters, or
\* null (the key is absent).
Null == <<"null">>
Digit == <<"0", "1", "2", "3", "4", "5", "6", "7", "8", "9">>

RECURSIVE NatToString(_)
NatToString(n) ==
    IF n < 10 THEN <<Digit[n + 1]>>
    ELSE NatToString(n \div 10) \o <<Digit[(n % 10) + 1]>>

\* Number.prototype.toString of an integer.
toString(n) == IF n < 0 THEN <<"-">> \o NatToString(-n) ELSE NatToString(n)

DigitValue(c) == CHOOSE d \in 0..9 : Digit[d + 1] = c
IsDigit(c) == \E d \in 0..9 : Digit[d + 1] = c

\* Numbers.  A whole number of up to nine digits is an integer; NaN, the
\* infinities, the doubles below 2^-1022 (the subnormal ones: so many units
\* of 2^-1074, the count written in decimal digits) and every other finite
\* double (mantissa * 10^exponent: the mantissa is written in decimal
\* digits, "-" before them for a negative number, and its digits are those
\* Number.prototype.toString writes, the fewest that parse back to the same
\* double) are the records below.  -0 is 0.  The states of the pipeline hold
\* integers only.
NaN == [number |-> "NaN"]
Infinity(negative) == [number |-> IF negative THEN "-Infinity" ELSE "Infinity"]
Decimal(mantissa, exponent) == [mantissa |-> mantissa, exponent |-> exponent]
Subnormal(negative, units) == [negative |-> negative, units |-> units]

\* A character that a string of this module cannot hold is written by its
\* code point.  WhiteSpace and LineTerminator of ECMAScript, the characters
\* parseFloat skips at the start of its argument: TAB, LF, VT, FF, CR, SP,
\* NBSP, ZWNBSP, LS, PS and the other space separators of Unicode.
WhiteSpace ==
    {"\t", "\n", "U+000B", "\f", "\r", " ", "U+00A0", "U+FEFF", "U+2028", "U+2029",
     "U+1680", "U+2000", "U+2001", "U+2002", "U+2003", "U+2004", "U+2005", "U+2006",
     "U+2007", "U+2008", "U+2009", "U+200A", "U+202F", "U+205F", "U+3000"}

\* The functions of strings below are functions of the sequence of the
\* string's characters.

\* The value of a string of up to nine decimal digits.
DigitsValue[digits \in Seq(STRING)] ==
    IF digits = <<>> THEN 0
    ELSE 10 * DigitsValue[SubSeq(digits, 1, Len(digits) - 1)] + DigitValue(digits[Len(digits)])

\* s from the first of the positions `starts` on, and s before the first of
\* the positions `stops`.
FromFirst(s, starts) ==
    IF starts = {} THEN <<>>
    ELSE SubSeq(s, CHOOSE i \in starts : \A j \in starts : i <= j, Len(s))
UpToFirst(s, stops) ==
    IF stops = {} THEN s
    ELSE SubSeq(s, 1, (CHOOSE i \in stops : \A j \in stops : i <= j) - 1)

\* The decimal digits s starts with.
LeadingDigits[s \in Seq(STRING)] == UpToFirst(s, {i \in DOMAIN s : ~IsDigit(s[i])})

\* s without the white space it starts with.
TrimStart[s \in Seq(STRING)] == FromFirst(s, {i \in DOMAIN s : s[i] \notin WhiteSpace})

\* A string of decimal digits without the zeros it starts with.
StripZeros[digits \in Seq(STRING)] == FromFirst(digits, {i \in DOMAIN digits : digits[i] # "0"})

\* The value of the digits of an exponent; with more than nine digits it is
\* beyond the exponent of every double and counts as 999999999.
ExponentValue[digits \in Seq(STRING)] ==
    IF Len(StripZeros[digits]) > 9 THEN 999999999 ELSE DigitsValue[StripZeros[digits]]

\* The ExponentPart s starts with: e or E, an optional sign and digits; it
\* counts only with its digits, and without it the exponent is 0.
ExponentPart[s \in Seq(STRING)] ==
    IF s = <<>> \/ Head(s) \notin {"e", "E"} \/ Tail(s) = <<>> THEN 0
    ELSE IF Head(Tail(s)) = "-" THEN -ExponentValue[LeadingDigits[Tail(Tail(s))]]
    ELSE IF Head(Tail(s)) = "+" THEN ExponentValue[LeadingDigits[Tail(Tail(s))]]
    ELSE ExponentValue[LeadingDigits[Tail(s)]]

\* The decimals, digits * 10^exponent, and the doubles, (high * 10^9 + low)
\* * 2^exponent with less than 2^53 in the brackets.
Decimals == [digits : Seq(STRING), exponent : Int]
Doubles == [high : Nat, low : Nat, exponent : Int]

\* digits * 10^exponent written from its first to its last digit that is not
\* 0 (no digit for 0): d is <<digits, exponent>>.
Normalised[d \in Seq(STRING) \X Int] ==
    LET nonzero == {i \in DOMAIN d[1] : d[1][i] # "0"}
        first == CHOOSE i \in nonzero : \A j \in 1..(i - 1) : d[1][j] = "0"
        last == CHOOSE i \in nonzero : \A j \in (i + 1)..Len(d[1]) : d[1][j] = "0"
    IN  IF nonzero = {} THEN [digits |-> <<>>, exponent |-> 0]
        ELSE [digits |-> SubSeq(d[1], first, last), exponent |-> d[2] + Len(d[1]) - last]

\* No double and no middle of two doubles has more than 768 digits: of a
\* decimal of more than 800 digits the first 800 and one digit that stands
\* for the rest are rounded to the same double.
Shortened[d \in Decimals] ==
    IF Len(d.digits) > 800
    THEN [digits |-> SubSeq(d.digits, 1, 800) \o <<"1">>,
          exponent |-> d.exponent + Len(d.digits) - 801]
    ELSE d

\* The longest StrDecimalLiteral the string starts with (white space and sign
\* apart): Infinity, or digits with an optional fraction and an optional
\* exponent, or a fraction that starts with the dot; a dot with no digit on
\* either side is no literal.  The literal stands for digits * 10^exponent.
StrDecimalLiteral[s \in Seq(STRING)] ==
    LET int == LeadingDigits[s]
        dot == Len(s) > Len(int) /\ s[Len(int) + 1] = "."
        fraction == IF dot THEN LeadingDigits[SubSeq(s, Len(int) + 2, Len(s))] ELSE <<>>
        exponent == ExponentPart[SubSeq(s, Len(int) + Len(fraction) + (IF dot THEN 2 ELSE 1),
                                        Len(s))]
    IN  IF Len(s) >= 8 /\ SubSeq(s, 1, 8) = <<"I", "n", "f", "i", "n", "i", "t", "y">>
        THEN [kind |-> "Infinity"]
        ELSE IF int = <<>> /\ fraction = <<>> THEN [kind |-> "none"]
        ELSE [kind |-> "decimal",
              value |-> Shortened[Normalised[<<int \o fraction, exponent - Len(fraction)>>]]]

\* The parse of parseFloat: white space skipped, then the sign, then the literal.
ParsedFloat[s \in Seq(STRING)] ==
    LET t == TrimStart[s]
    IN  [negative |-> t # <<>> /\ Head(t) = "-",
         literal |-> StrDecimalLiteral[IF t # <<>> /\ Head(t) \in {"+", "-"} THEN Tail(t) ELSE t]]

\* Whole numbers too long for an integer are the sequence of their digits in
\* base 10000, the lowest first.
InBase10000[digits \in Seq(STRING)] ==
    [i \in 1..((Len(digits) + 3) \div 4) |->
        DigitsValue[SubSeq(digits,
                           IF Len(digits) - 4 * i + 1 < 1 THEN 1 ELSE Len(digits) - 4 * i + 1,
                           Len(digits) - 4 * i + 4)]]

\* The carry out of the first i digits of number * factor + carry, for a
\* factor below 10^5 and i up to 4.
Carry1(number, factor, carry) == (number[1] * factor + carry) \div 10000
Carry2(number, factor, carry) == (number[2] * factor + Carry1(number, factor, carry)) \div 10000
Carry3(number, factor, carry) == (number[3] * factor + Carry2(number, factor, carry)) \div 10000
Carry4(number, factor, carry) == (number[4] * factor + Carry3(number, factor, carry)) \div 10000

\* The first four digits of number * factor + carry.
FourDigitsOf(number, factor, carry) ==
    <<(number[1] * factor + carry) % 10000,
      (number[2] * factor + Carry1(number, factor, carry)) % 10000,
      (number[3] * factor + Carry2(number, factor, carry)) % 10000,
      (number[4] * factor + Carry3(number, factor, carry)) % 10000>>

\* done followed by the digits of number * factor + carry, four digits of
\* the number at a time: x is <<number, factor, carry, done>>.
TimesFrom[x \in Seq(Nat) \X Nat \X Nat \X Seq(Nat)] ==
    IF x[1] = <<>>
    THEN x[4] \o (IF x[3] = 0 THEN <<>>
                  ELSE IF x[3] < 10000 THEN <<x[3]>>
                  ELSE <<x[3] % 10000, x[3] \div 10000>>)
    ELSE IF Len(x[1]) < 4
         THEN TimesFrom[<<(<<>>), x[2],
                          IF Len(x[1]) = 1 THEN Carry1(x[1], x[2], x[3])
                          ELSE IF Len(x[1]) = 2 THEN Carry2(x[1], x[2], x[3])
                          ELSE Carry3(x[1], x[2], x[3]),
                          x[4] \o SubSeq(FourDigitsOf(x[1] \o <<0, 0, 0>>, x[2], x[3]),
                                         1, Len(x[1]))>>]
    ELSE TimesFrom[<<SubSeq(x[1], 5, Len(x[1])), x[2], Carry4(x[1], x[2], x[3]),
                     x[4] \o FourDigitsOf(x[1], x[2], x[3])>>]

\* The digits of number * factor.
Times[x \in Seq(Nat) \X Nat] == TimesFrom[<<x[1], x[2], 0, (<<>>)>>]

\* The digits of number * factor^n: x is <<number, factor, n>>.
TimesPower[x \in Seq(Nat) \X Nat \X Nat] ==
    IF x[3] = 0 THEN x[1]
    ELSE IF x[3] = 1 THEN Times[<<x[1], x[2]>>]
    ELSE TimesPower[<<TimesPower[<<x[1], x[2], x[3] \div 2>>], x[2], x[3] - x[3] \div 2>>]

\* The digits of number * 2^n and of number * 5^n.
TimesTwoTo[x \in Seq(Nat) \X Nat] ==
    Times[<<TimesPower[<<x[1], 65536, x[2] \div 16>>], 2^(x[2] % 16)>>]
TimesFiveTo[x \in Seq(Nat) \X Nat] ==
    Times[<<TimesPower[<<x[1], 78125, x[2] \div 7>>], 5^(x[2] % 7)>>]

\* The decimal digit of weight 10^p of a number.
DecimalDigit(number, p) ==
    IF p \div 4 + 1 > Len(number) THEN 0 ELSE (number[p \div 4 + 1] \div 10^(p % 4)) % 10

\* The string of decimal digits of the next whole number.
Increment[digits \in Seq(STRING)] ==
    IF digits = <<>> THEN <<"1">>
    ELSE IF digits[Len(digits)] = "9"
         THEN Increment[SubSeq(digits, 1, Len(digits) - 1)] \o <<"0">>
    ELSE SubSeq(digits, 1, Len(digits) - 1) \o <<Digit[DigitValue(digits[Len(digits)]) + 2]>>

\* floor(number / 10^n) in decimal digits, and whether the division leaves
\* a remainder.
Quotient(number, n) ==
    StripZeros[[i \in 1..(4 * Len(number) - n) |->
                   Digit[DecimalDigit(number, 4 * Len(number) - i) + 1]]]
Remainder(number, n) ==
    \E p \in 0..(n - 1) : p < 4 * Len(number) /\ DecimalDigit(number, p) # 0

\* The rounding of digits * 10^exponent to a double is done on a whole
\* number w of 54 bits or a few more, with w * 2^-t <= digits * 10^exponent
\* < (w + 1) * 2^-t; t is at most 1075, where w counts halves of 2^-1074.
\* 10^(size + exponent - 1), which the decimal is not below, is not below
\* 2^(53 - t).
BinaryScale(position) ==
    IF 54 - ((position - 1) * 3321928) \div 1000000 > 1075 THEN 1075
    ELSE 54 - ((position - 1) * 3321928) \div 1000000

\* digits * 10^exponent * 2^t is digits * 2^two * 5^five / 10^ten: a power
\* below 0 of 2 is that power of 5 over that of 10, and one of 5 that of 2
\* over that of 10.  x is <<digits, exponent, t>> and the result <<the
\* digits of w, whether the division left a remainder, -t>>.
Scaled[x \in Seq(STRING) \X Int \X Int] ==
    LET two == (IF x[2] + x[3] > 0 THEN x[2] + x[3] ELSE 0) + (IF x[2] < 0 THEN -x[2] ELSE 0)
        five == (IF x[2] > 0 THEN x[2] ELSE 0) + (IF x[2] + x[3] < 0 THEN -(x[2] + x[3]) ELSE 0)
        ten == (IF x[2] + x[3] < 0 THEN -(x[2] + x[3]) ELSE 0) + (IF x[2] < 0 THEN -x[2] ELSE 0)
        product == TimesFiveTo[<<TimesTwoTo[<<InBase10000[x[1]], two>>], five>>]
    IN  <<Quotient(product, ten), Remainder(product, ten), -x[3]>>

\* w, of up to 18 digits, as <<w \div 10^9, w % 10^9>>, and the rest as it is.
InTwoParts[x \in Seq(STRING) \X BOOLEAN \X Int] ==
    <<IF Len(x[1]) > 9 THEN DigitsValue[SubSeq(x[1], 1, Len(x[1]) - 9)] ELSE 0,
      IF Len(x[1]) > 9 THEN DigitsValue[SubSeq(x[1], Len(x[1]) - 8, Len(x[1]))]
      ELSE DigitsValue[x[1]],
      x[2], x[3]>>

\* w halved while it is 2^54 = 18014398509481984 or more, the bits shifted
\* out added to the remainder: x is <<w \div 10^9, w % 10^9, remainder,
\* the power of 2 that w counts>>.
Halved[x \in Nat \X Nat \X BOOLEAN \X Int] ==
    IF x[1] > 18014398 \/ (x[1] = 18014398 /\ x[2] >= 509481984)
    THEN Halved[<<x[1] \div 2, (x[2] + (x[1] % 2) * 1000000000) \div 2,
                  x[3] \/ x[2] % 2 = 1, x[4] + 1>>]
    ELSE x

\* w of up to 54 bits rounded to 53 bits, to the even one of two that are as
\* near: the double is (high * 10^9 + low) * 2^exponent.  2^53 =
\* 9007199254740992 is 2^52 * 2.
RoundedToEven[x \in Nat \X Nat \X BOOLEAN \X Int] ==
    LET high == x[1] \div 2
        low == (x[2] + (x[1] % 2) * 1000000000) \div 2
        up == x[2] % 2 = 1 /\ (x[3] \/ low % 2 = 1)
    IN  IF ~up THEN [high |-> high, low |-> low, exponent |-> x[4] + 1]
        ELSE IF low = 999999999 THEN [high |-> high + 1, low |-> 0, exponent |-> x[4] + 1]
        ELSE IF high = 9007199 /\ low = 254740991
             THEN [high |-> 4503599, low |-> 627370496, exponent |-> x[4] + 2]
        ELSE [high |-> high, low |-> low + 1, exponent |-> x[4] + 1]

\* The double nearest to digits * 10^exponent, a decimal from 10^-324 to
\* 10^309: d is <<digits, exponent>>.
Nearest[d \in Seq(STRING) \X Int] ==
    RoundedToEven[Halved[InTwoParts[Scaled[<<d[1], d[2], BinaryScale(Len(d[1]) + d[2])>>]]]]

\* The largest double is (2^53 - 1) * 2^971; the doubles of 2^-1022 =
\* 4503599627370496 * 2^-1074 and more are the normal ones, those below are
\* multiples of 2^-1074.
IsInfinite(double) == double.exponent > 971
IsZero(double) == double.high = 0 /\ double.low = 0
IsNormal(double) ==
    double.high > 4503599 \/ (double.high = 4503599 /\ double.low >= 627370496)

\* The decimal digits of high * 10^9 + low.
TwoParts(high, low) ==
    StripZeros[NatToString(high) \o Tail(NatToString(1000000000 + low))]

\* The digits of the decimal that a double is, and its exponent.
Exactly[double \in Doubles] ==
    IF double.exponent >= 0
    THEN [digits |-> Quotient(TimesTwoTo[<<InBase10000[TwoParts(double.high, double.low)],
                                           double.exponent>>], 0),
          exponent |-> 0]
    ELSE [digits |-> Quotient(TimesFiveTo[<<InBase10000[TwoParts(double.high, double.low)],
                                            -double.exponent>>], 0),
          exponent |-> double.exponent]

\* The first n digits of a decimal of more digits, those digits and one,
\* and whether the decimal is nearer to the second or as near to both.
Below(d, n) == Normalised[<<SubSeq(d.digits, 1, n), d.exponent + Len(d.digits) - n>>]
Above(d, n) == Normalised[<<Increment[SubSeq(d.digits, 1, n)], d.exponent + Len(d.digits) - n>>]
NearerAbove(d, n) ==
    \/ DigitValue(d.digits[n + 1]) > 5
    \/ /\ d.digits[n + 1] = "5"
       /\ \E i \in (n + 2)..Len(d.digits) : d.digits[i] # "0"
HalfWay(d, n) ==
    /\ d.digits[n + 1] = "5"
    /\ \A i \in (n + 2)..Len(d.digits) : d.digits[i] = "0"

\* The decimals of n digits that are rounded to the double, the nearest to
\* it if there are two (the even one if they are as near): x is <<the
\* decimal the double is, n, the double>>.
OfDigits[x \in Decimals \X Nat \X Doubles] ==
    LET below == Below(x[1], x[2])
        above == Above(x[1], x[2])
        belowIs == Nearest[<<below.digits, below.exponent>>] = x[3]
        aboveIs == Nearest[<<above.digits, above.exponent>>] = x[3]
    IN  IF Len(x[1].digits) <= x[2] THEN {Normalised[<<x[1].digits, x[1].exponent>>]}
        ELSE IF belowIs /\ aboveIs
             THEN (IF NearerAbove(x[1], x[2]) THEN {above}
                   ELSE IF HalfWay(x[1], x[2]) /\ DigitValue(x[1].digits[x[2]]) % 2 = 1
                        THEN {above}
                   ELSE {below})
        ELSE IF belowIs THEN {below}
        ELSE IF aboveIs THEN {above}
        ELSE {}

\* The decimal of the fewest digits that is rounded to the double, from 16
\* digits on: 17 digits tell any two doubles apart.
OfFewestDigits[x \in Decimals \X Doubles] ==
    IF OfDigits[<<x[1], 16, x[2]>>] # {}
    THEN CHOOSE d \in OfDigits[<<x[1], 16, x[2]>>] : TRUE
    ELSE CHOOSE d \in OfDigits[<<x[1], 17, x[2]>>] : TRUE

\* d rounded to 15 digits.
To15Digits(d) ==
    IF DigitValue(d.digits[16]) >= 5 THEN Above(d, 15) ELSE Below(d, 15)

\* The digits Number.prototype.toString writes for a normal double, the one
\* nearest to the decimal d: no two decimals of up to 15 digits are rounded
\* to the same normal double, so d itself if it has no more, and else d
\* rounded to 15 digits if that is rounded to the double.  x is <<d, the
\* double>>.
ShortestDecimal[x \in Decimals \X Doubles] ==
    IF Len(x[1].digits) <= 15 THEN x[1]
    ELSE IF Nearest[<<To15Digits(x[1]).digits, To15Digits(x[1]).exponent>>] = x[2]
         THEN To15Digits(x[1])
    ELSE OfFewestDigits[<<Exactly[x[2]], x[2]>>]

\* A finite number that is not 0, of a sign, digits and an exponent: x is
\* <<negative, decimal>>.
Finite[x \in BOOLEAN \X Decimals] ==
    IF x[2].exponent >= 0 /\ Len(x[2].digits) + x[2].exponent <= 9
    THEN (IF x[1] THEN -DigitsValue[x[2].digits] ELSE DigitsValue[x[2].digits]) * 10^x[2].exponent
    ELSE Decimal(IF x[1] THEN <<"-">> \o x[2].digits ELSE x[2].digits, x[2].exponent)

\* The number that the double nearest to the decimal d is: x is <<the sign,
\* d, the double>>.
Rounded[x \in BOOLEAN \X Decimals \X Doubles] ==
    IF IsInfinite(x[3]) THEN Infinity(x[1])
    ELSE IF IsZero(x[3]) THEN 0
    ELSE IF ~IsNormal(x[3]) THEN Subnormal(x[1], TwoParts(x[3].high, x[3].low))
    ELSE Finite[<<x[1], ShortestDecimal[<<x[2], x[3]>>]>>]

\* A decimal between 10^-307 and 10^308 is in the range of the normal
\* doubles.
InNormalRange(d) ==
    /\ Len(d.digits) + d.exponent >= -306
    /\ Len(d.digits) + d.exponent <= 308

\* A decimal that is rounded to an infinity: 10^309 or more, or 10^308 or
\* more and nearest to 2^1024.
Overflows(d) ==
    /\ d.digits # <<>>
    /\ \/ Len(d.digits) + d.exponent > 309
       \/ /\ Len(d.digits) + d.exponent = 309
          /\ IsInfinite(Nearest[<<d.digits, d.exponent>>])

\* The double of a sign and a decimal, x being <<negative, decimal>>.  Below
\* 10^-324 the decimal is rounded to 0 and from 10^309 on to an infinity.
Double[x \in BOOLEAN \X Decimals] ==
    IF x[2].digits = <<>> THEN 0
    ELSE IF Len(x[2].digits) + x[2].exponent > 309 THEN Infinity(x[1])
    ELSE IF Len(x[2].digits) + x[2].exponent < -323 THEN 0
    ELSE IF Len(x[2].digits) <= 15 /\ InNormalRange(x[2]) THEN Finite[x]
    ELSE Rounded[<<x[1], x[2], Nearest[<<x[2].digits, x[2].exponent>>]>>]

\* parseFloat of a string.
StringToNumber[s \in Seq(STRING)] ==
    IF ParsedFloat[s].literal.kind = "none" THEN NaN
    ELSE IF ParsedFloat[s].literal.kind = "Infinity" THEN Infinity(ParsedFloat[s].negative)
    ELSE Double[<<ParsedFloat[s].negative, ParsedFloat[s].literal.value>>]

parseFloat(s) == StringToNumber[s]

\* The left operand of JavaScript's || is used unless it is falsy: null or "".
OrElse(v, dflt) == IF v = Null \/ v = <<>> THEN dflt ELSE v

\* ------------------------------------------------------------------ state

VARIABLES
    redis,        \* Redis: <<ship_id, component>> -> the string stored under threshold:{ship_id}:{component}, for the keys present
    setup,        \* cache-setup: the client.set calls initCache has still to make
    windowStart,  \* NOW() - INTERVAL 'window minutes', as a reading timestamp
    tq,           \* TelemetryQueue: every message ever sent, in arrival order
    eq,           \* EventsQueue: every message ever sent, in arrival order
    db,           \* PostgreSQL: every row ever inserted, in insertion order
    notes,        \* webhook calls made by sendNotification, in call order
    wpc,          \* Worker: position in startWorker's loop
    wbatch,       \* Worker: messages of response.Messages not yet handled
    wdone,        \* Worker: the processed[] entries of this iteration
    epc,          \* Executor: position in startExecutor's loop
    ebatch,       \* Executor: messages of response.Messages not yet handled
    edone,        \* Executor: the processed[] entries of this iteration
    eops,         \* Executor: awaited calls of processEvent still to make for the current event
    sensors,      \* the readings the sensors have still to post, in order
    faults,       \* transient failures still to come
    wi,           \* Worker: index in wbatch of the message the for loop is at
    wtemps,       \* Worker: temps of checkTemperatureTrend, once its query returned
    wreads,       \* Worker, and the function-level call: the replies to the redis.get calls getThresholds has awaited so far
    ei,           \* Executor: index in ebatch of the message the for loop is at
    webhook,      \* config.notifications.webhook.enabled with a url set
    stopping,     \* each process: the awaited call its shutdown() is at, "no" before a signal
    call,         \* function-level checks: the call under test
    ret           \* function-level checks: its result

vars == <<redis, setup, windowStart, tq, eq, db, notes, wpc, wbatch, wdone,
          epc, ebatch, edone, eops,
          sensors, faults, wi, wtemps, wreads, ei, webhook, stopping, call, ret>>

\* --------------------------------------------------------- message bodies

\* JSON.stringify of an object of strings, integers, arrays and objects, and
\* JSON.parse of a body: a body that is not JSON makes JSON.parse throw.
stringify(x) == [json |-> x]
NotJson == [text |-> "not json"]
Parses(body) == "json" \in DOMAIN body
parse(body) == body.json

Message(body) == [body |-> body, state |-> "visible"]

\* SendMessageCommand: the message joins the queue, visible.
SendMessage(q, body) == Append(q, Message(body))

Visible(q) == {i \in DOMAIN q : q[i].state = "visible"}
InFlight(q) == {i \in DOMAIN q : q[i].state = "inflight"}
Deleted(q) == {i \in DOMAIN q : q[i].state = "deleted"}

\* ReceiveMessageCommand returning the messages S: they become invisible to
\* other receivers until their visibility timeout elapses.
Receive(q, S) == [i \in DOMAIN q |-> IF i \in S THEN [q[i] EXCEPT !.state = "inflight"] ELSE q[i]]

\* DeleteMessageBatchCommand with the entries S.
DeleteMessageBatch(q, S) ==
    [i \in DOMAIN q |-> IF i \in S THEN [q[i] EXCEPT !.state = "deleted"] ELSE q[i]]

\* response.Messages of a ReceiveMessageCommand that returns the messages S:
\* a standard queue hands them over in any order.
Orders(S) ==
    {b \in [1..Cardinality(S) -> S] : \A i, j \in DOMAIN b : i # j => b[i] # b[j]}

Range(s) == {s[i] : i \in DOMAIN s}

\* ------------------------------------------------------ worker/worker.js

\* redis.get(`threshold:${shipId}:${component}`)
redisGet(shipId, component) ==
    IF <<shipId, component>> \in DOMAIN redis THEN redis[<<shipId, component>>] ELSE Null

\* The components getThresholds reads, in the order of its three awaited
\* redis.get calls: each call returns to the event loop, and what it reads is
\* Redis as it is when the call is answered.
ThresholdKeys == <<"warning", "critical", "target">>

\* The replies to the three calls when nothing writes Redis between them.
Replies(shipId) == [i \in 1..3 |-> redisGet(shipId, ThresholdKeys[i])]

\* A lookup that falls back to all three defaults when any key is missing.
getThresholdsAllOrNothing(replies) ==
    IF \E i \in 1..3 : replies[i] = Null
    THEN [warning |-> defaultWarning, critical |-> defaultCritical, target |-> defaultTarget]
    ELSE [warning  |-> parseFloat(replies[1]),
          critical |-> parseFloat(replies[2]),
          target   |-> parseFloat(replies[3])]

\* What getThresholds returns from the replies to its three calls.
getThresholds(replies) ==
    [warning  |-> parseFloat(OrElse(replies[1], toString(defaultWarning))),
     critical |-> parseFloat(OrElse(replies[2], toString(defaultCritical))),
     target   |-> parseFloat(OrElse(replies[3], toString(defaultTarget)))]

\* A classification whose comparisons are not strict.
determineAlertTypeTiesUp(temp, thresholds) ==
    IF temp >= thresholds.critical THEN CRITICAL
    ELSE IF temp >= thresholds.warning THEN WARNING
    ELSE NORMAL

determineAlertType(temp, thresholds) ==
    IF temp > thresholds.critical THEN CRITICAL
    ELSE IF temp > thresholds.warning THEN WARNING
    ELSE NORMAL

\* An action list that notifies before it requests the adjustment.
determineActionsReordered(alertType) ==
    IF alertType = CRITICAL THEN <<LOG, NOTIFY_CRITICAL, ADJUST_TEMPERATURE>>
    ELSE IF alertType = WARNING THEN <<LOG, NOTIFY_WARNING>>
    ELSE <<LOG>>

determineActions(alertType) ==
    IF alertType = CRITICAL THEN <<LOG, ADJUST_TEMPERATURE, NOTIFY_CRITICAL>>
    ELSE IF alertType = WARNING THEN <<LOG, NOTIFY_WARNING>>
    ELSE <<LOG>>

\* The TELEMETRY_PROCESSED event processTelemetry builds.
TelemetryEvent(telemetry, replies) ==
    LET thresholds == getThresholds(replies)
        alertType == determineAlertType(telemetry.temp, thresholds)
    IN  [event_type |-> "TELEMETRY_PROCESSED",
         telemetry  |-> telemetry,
         evaluation |-> [alert_type |-> alertType,
                         thresholds |-> thresholds,
                         actions    |-> determineActions(alertType)]]

\* The text PostgreSQL returns for a DECIMAL(5,2) column holding an integer.
decimalText(n) == toString(n) \o <<".", "0", "0">>

\* Rows of telemetry_readings for the ship inside the window.
TrendCandidates(shipId) ==
    {i \in DOMAIN db : /\ db[i].table = "telemetry_readings"
                       /\ db[i].ship_id = shipId
                       /\ db[i].timestamp > windowStart}

\* ORDER BY timestamp DESC LIMIT n over the row indices S: the k-th row is the
\* one with k - 1 rows before it.  Rows with equal timestamps are copies of
\* one reading and carry the same temperature; they are taken in insertion
\* order.
NewestFirst(S, n) ==
    LET Before(x) == {y \in S : \/ db[y].timestamp > db[x].timestamp
                                \/ db[y].timestamp = db[x].timestamp /\ y < x}
        limit == IF Cardinality(S) < n THEN Cardinality(S) ELSE n
    IN  [k \in 1..limit |-> CHOOSE x \in S : Cardinality(Before(x)) = k - 1]

\* result.rows of checkTemperatureTrend's query, mapped to temps.
trendTemps(shipId) ==
    LET rows == NewestFirst(TrendCandidates(shipId), trendMaxReadings)
    IN  [i \in DOMAIN rows |-> parseFloat(decimalText(db[rows[i]].temperature))]

rising(temps) == Cardinality({i \in 1..(Len(temps) - 1) : temps[i] > temps[i + 1]})

\* A trend test that accepts an increase equal to trendMinIncrease.
trendDetectedAtMinimum(temps) ==
    /\ ~(Len(temps) < trendMinReadings)
    /\ rising(temps) >= trendMinRising
    /\ temps[1] - temps[Len(temps)] >= trendMinIncrease

\* Whether checkTemperatureTrend publishes, given the temps of its query.
trendDetected(temps) ==
    /\ ~(Len(temps) < trendMinReadings)
    /\ rising(temps) >= trendMinRising
    /\ temps[1] - temps[Len(temps)] > trendMinIncrease

\* A trend event that carries the oldest temperature of the sample.
TrendEventOldest(shipId, temps) ==
    [event_type |-> "TREND_ANOMALY",
     telemetry  |-> [ship_id |-> shipId, temp |-> temps[Len(temps)]],
     evaluation |-> [alert_type |-> TREND_ANOMALY,
                     actions    |-> <<TREND_ALERT>>,
                     message    |-> [text |-> "Temperature rising",
                                     increase |-> temps[1] - temps[Len(temps)]]]]

\* The TREND_ANOMALY event checkTemperatureTrend builds.
TrendEvent(shipId, temps) ==
    [event_type |-> "TREND_ANOMALY",
     telemetry  |-> [ship_id |-> shipId, temp |-> temps[1]],
     evaluation |-> [alert_type |-> TREND_ANOMALY,
                     actions    |-> <<TREND_ALERT>>,
                     message    |-> [text |-> "Temperature rising",
                                     increase |-> temps[1] - temps[Len(temps)]]]]

\* A trend check that publishes nothing while the EventsQueue holds a trend
\* event of the ship.
checkTemperatureTrendOnce(shipId, temps) ==
    IF /\ trendDetected(temps)
       /\ \A j \in DOMAIN eq :
             ~(/\ Parses(eq[j].body)
               /\ parse(eq[j].body).event_type = "TREND_ANOMALY"
               /\ parse(eq[j].body).telemetry.ship_id = shipId)
    THEN <<TrendEvent(shipId, temps)>> ELSE <<>>

\* The events checkTemperatureTrend publishes, given the temps of its query:
\* none or one.
checkTemperatureTrend(shipId, temps) ==
    IF trendDetected(temps) THEN <<TrendEvent(shipId, temps)>> ELSE <<>>

\* -------------------------------------------------- executor (Component C)

TelemetryRow(telemetry) ==
    [table |-> "telemetry_readings",
     ship_id |-> telemetry.ship_id,
     sensor_id |-> telemetry.sensor_id,
     temperature |-> telemetry.temp,
     timestamp |-> telemetry.timestamp]

\* An insert that skips a reading the table already holds.
storeTelemetryOnce(telemetry) ==
    IF TelemetryRow(telemetry) \in Range(db) THEN db ELSE Append(db, TelemetryRow(telemetry))

\* INSERT INTO telemetry_readings
storeTelemetry(telemetry) == Append(db, TelemetryRow(telemetry))

\* A string built from a template is the record of the template's fixed text
\* and of the values put into it; the empty string is EmptyString.
EmptyString == [text |-> ""]

\* !evaluation.message: the event carries no message, or the empty string.
NoMessage(evaluation) ==
    \/ "message" \notin DOMAIN evaluation
    \/ evaluation.message.text = ""

\* An alert row that carries the critical threshold for a WARNING too.
AlertRowCriticalThreshold(telemetry, evaluation, action) ==
    LET threshold ==
            IF evaluation.alert_type \in {CRITICAL, WARNING} THEN evaluation.thresholds.critical
            ELSE 0
        message ==
            IF ~NoMessage(evaluation) THEN evaluation.message
            ELSE [text |-> "degrees threshold",
                  alert_type |-> evaluation.alert_type,
                  ship_id |-> telemetry.ship_id,
                  sensor_id |-> telemetry.sensor_id,
                  temp |-> telemetry.temp,
                  threshold |-> threshold]
    IN  [table |-> "alerts",
         ship_id |-> telemetry.ship_id,
         temperature |-> telemetry.temp,
         threshold |-> threshold,
         alert_type |-> evaluation.alert_type,
         action_taken |-> action,
         message |-> message]

AlertRow(telemetry, evaluation, action) ==
    LET threshold ==
            IF evaluation.alert_type = CRITICAL THEN evaluation.thresholds.critical
            ELSE IF evaluation.alert_type = WARNING THEN evaluation.thresholds.warning
            ELSE 0
        message ==
            IF ~NoMessage(evaluation) THEN evaluation.message
            ELSE [text |-> "degrees threshold",
                  alert_type |-> evaluation.alert_type,
                  ship_id |-> telemetry.ship_id,
                  sensor_id |-> telemetry.sensor_id,
                  temp |-> telemetry.temp,
                  threshold |-> threshold]
    IN  [table |-> "alerts",
         ship_id |-> telemetry.ship_id,
         temperature |-> telemetry.temp,
         threshold |-> threshold,
         alert_type |-> evaluation.alert_type,
         action_taken |-> action,
         message |-> message]

\* A store that keeps one alert per ship, overwriting the one it holds.
storeAlertUpsert(telemetry, evaluation, action) ==
    LET held == {i \in DOMAIN db : db[i].table = "alerts" /\ db[i].ship_id = telemetry.ship_id}
    IN  IF held = {} THEN Append(db, AlertRow(telemetry, evaluation, action))
        ELSE [db EXCEPT ![CHOOSE i \in held : TRUE] = AlertRow(telemetry, evaluation, action)]

\* A store that copies the temperature of a trend alert into telemetry_readings.
storeAlertFeedsHistory(telemetry, evaluation, action) ==
    IF action = TREND_ALERT
    THEN Append(Append(db, AlertRow(telemetry, evaluation, action)),
                [table |-> "telemetry_readings", ship_id |-> telemetry.ship_id,
                 sensor_id |-> "trend", temperature |-> telemetry.temp,
                 timestamp |-> windowStart + 1])
    ELSE Append(db, AlertRow(telemetry, evaluation, action))

\* INSERT INTO alerts
storeAlert(telemetry, evaluation, action) == Append(db, AlertRow(telemetry, evaluation, action))

\* A correction request stored as already carried out.
ActionRowExecuted(telemetry, targetTemp) ==
    [table |-> "temperature_actions",
     ship_id |-> telemetry.ship_id,
     action_type |-> ADJUST_TEMPERATURE,
     current_temp |-> telemetry.temp,
     target_temp |-> targetTemp,
     status |-> "EXECUTED"]

ActionRow(telemetry, targetTemp) ==
    [table |-> "temperature_actions",
     ship_id |-> telemetry.ship_id,
     action_type |-> ADJUST_TEMPERATURE,
     current_temp |-> telemetry.temp,
     target_temp |-> targetTemp,
     status |-> "PENDING"]

\* A correction request with the reading and the target exchanged.
storeTemperatureActionSwapped(telemetry, targetTemp) ==
    Append(db, ActionRow([telemetry EXCEPT !.temp = targetTemp], telemetry.temp))

\* INSERT INTO temperature_actions
storeTemperatureAction(telemetry, targetTemp) == Append(db, ActionRow(telemetry, targetTemp))

\* The webhook call of sendNotification; delivered is FALSE when fetch threw.
Notification(telemetry, evaluation, delivered) ==
    [alert_type |-> evaluation.alert_type,
     ship_id |-> telemetry.ship_id,
     temperature |-> telemetry.temp,
     timestamp |-> telemetry.timestamp,
     thresholds |-> evaluation.thresholds,
     delivered |-> delivered]

\* A for loop body that stores the temperature action before its alert.
actionCallsActionFirst(action) ==
    IF action = LOG THEN <<[fn |-> "storeTelemetry"]>>
    ELSE IF action = NOTIFY_WARNING \/ action = NOTIFY_CRITICAL
         THEN <<[fn |-> "storeAlert", action |-> action]>>
              \o (IF webhook THEN <<[fn |-> "sendNotification"]>> ELSE <<>>)
    ELSE IF action = ADJUST_TEMPERATURE
         THEN <<[fn |-> "storeTemperatureAction"], [fn |-> "storeAlert", action |-> action]>>
    ELSE IF action = TREND_ALERT THEN <<[fn |-> "storeAlert", action |-> action]>>
    ELSE <<>>

\* A for loop body that stores the reading for an action it does not know.
actionCallsUnknownLogs(action) ==
    IF action = LOG \/ action \notin actionTypes THEN <<[fn |-> "storeTelemetry"]>>
    ELSE IF action = NOTIFY_WARNING \/ action = NOTIFY_CRITICAL
         THEN <<[fn |-> "storeAlert", action |-> action]>>
              \o (IF webhook THEN <<[fn |-> "sendNotification"]>> ELSE <<>>)
    ELSE IF action = ADJUST_TEMPERATURE
         THEN <<[fn |-> "storeAlert", action |-> action], [fn |-> "storeTemperatureAction"]>>
    ELSE IF action = TREND_ALERT THEN <<[fn |-> "storeAlert", action |-> action]>>
    ELSE <<>>

\* A for loop body that stores the trend alert twice.
actionCallsTrendTwice(action) ==
    IF action = LOG THEN <<[fn |-> "storeTelemetry"]>>
    ELSE IF action = NOTIFY_WARNING \/ action = NOTIFY_CRITICAL
         THEN <<[fn |-> "storeAlert", action |-> action]>>
              \o (IF webhook THEN <<[fn |-> "sendNotification"]>> ELSE <<>>)
    ELSE IF action = ADJUST_TEMPERATURE
         THEN <<[fn |-> "storeAlert", action |-> action], [fn |-> "storeTemperatureAction"]>>
    ELSE IF action = TREND_ALERT
         THEN <<[fn |-> "storeAlert", action |-> action], [fn |-> "storeAlert", action |-> action]>>
    ELSE <<>>

\* A for loop body that stores an alert for LOG as well.
actionCallsLogAlerts(action) ==
    IF action = LOG THEN <<[fn |-> "storeTelemetry"], [fn |-> "storeAlert", action |-> action]>>
    ELSE IF action = NOTIFY_WARNING \/ action = NOTIFY_CRITICAL
         THEN <<[fn |-> "storeAlert", action |-> action]>>
              \o (IF webhook THEN <<[fn |-> "sendNotification"]>> ELSE <<>>)
    ELSE IF action = ADJUST_TEMPERATURE
         THEN <<[fn |-> "storeAlert", action |-> action], [fn |-> "storeTemperatureAction"]>>
    ELSE IF action = TREND_ALERT THEN <<[fn |-> "storeAlert", action |-> action]>>
    ELSE <<>>

\* The awaited calls processEvent makes for one action of the list.
actionCalls(action) ==
    IF action = LOG THEN <<[fn |-> "storeTelemetry"]>>
    ELSE IF action = NOTIFY_WARNING \/ action = NOTIFY_CRITICAL
         THEN <<[fn |-> "storeAlert", action |-> action]>>
              \o (IF webhook THEN <<[fn |-> "sendNotification"]>> ELSE <<>>)
    ELSE IF action = ADJUST_TEMPERATURE
         THEN <<[fn |-> "storeAlert", action |-> action], [fn |-> "storeTemperatureAction"]>>
    ELSE IF action = TREND_ALERT THEN <<[fn |-> "storeAlert", action |-> action]>>
    ELSE <<>>

\* A processEvent that goes through the action list from its end.
RECURSIVE processEventBackwards(_)
processEventBackwards(actions) ==
    IF actions = <<>> THEN <<>>
    ELSE processEventBackwards(Tail(actions)) \o actionCalls(Head(actions))

\* The awaited calls of processEvent, in the order it makes them.
RECURSIVE processEvent(_)
processEvent(actions) ==
    IF actions = <<>> THEN <<>>
    ELSE actionCalls(Head(actions)) \o processEvent(Tail(actions))

\* A whole number a DECIMAL(5,2) column takes: at most three integer digits.
FitsDecimal(n) ==
    /\ n < 10^(decimalPrecision - decimalScale)
    /\ -n < 10^(decimalPrecision - decimalScale)

\* PostgreSQL takes the row: every DECIMAL(5,2) value of it is in range
\* (otherwise the INSERT fails with "numeric field overflow").
Insertable(row) ==
    IF row.table = "telemetry_readings" THEN FitsDecimal(row.temperature)
    ELSE IF row.table = "alerts" THEN FitsDecimal(row.temperature) /\ FitsDecimal(row.threshold)
    ELSE FitsDecimal(row.current_temp) /\ FitsDecimal(row.target_temp)

\* ------------------------------------------------------------ environment

\* Rows telemetry_readings holds when the processes start: two earlier
\* readings of ship_1 and one of ship_2.
SeedHistory ==
    <<[table |-> "telemetry_readings", ship_id |-> "ship_1", sensor_id |-> "s1",
       temperature |-> -12, timestamp |-> -1],
      [table |-> "telemetry_readings", ship_id |-> "ship_2", sensor_id |-> "s1",
       temperature |-> -1, timestamp |-> 0],
      [table |-> "telemetry_readings", ship_id |-> "ship_1", sensor_id |-> "s1",
       temperature |-> -9, timestamp |-> 0]>>

\* seed/ship-thresholds.json, as the project report lists it.
ShipThresholds ==
    [ships |->
        <<[ship_id |-> "ship_1",
           thresholds |-> [warning |-> -10, critical |-> -5, target |-> -18]],
          [ship_id |-> "ship_2",
           thresholds |-> [warning |-> -8, critical |-> -3, target |-> -15]],
          [ship_id |-> "ship_3",
           thresholds |-> [warning |-> -12, critical |-> -7, target |-> -20]]>>,
     defaults |-> [warning |-> -10, critical |-> -5, target |-> -18]]

\* A seed file that does not list the ship.
SeedWithout(shipId) ==
    [ShipThresholds EXCEPT
        !.ships = SelectSeq(ShipThresholds.ships, LAMBDA ship : ship.ship_id # shipId)]

\* A seed file that lists the ship only.
SeedOnly(shipId) ==
    [ShipThresholds EXCEPT
        !.ships = SelectSeq(ShipThresholds.ships, LAMBDA ship : ship.ship_id = shipId)]

\* The client.set calls of initCache for one entry of the seed, key and
\* value, in the order warning, critical, target: toString of a number the
\* entry does not give throws, and no call is made from there on.
SetCalls(entry) ==
    LET Set(c) == [key |-> <<entry.ship_id, c>>, value |-> toString(entry.thresholds[c])]
        given == DOMAIN entry.thresholds
    IN  IF "warning" \notin given THEN <<>>
        ELSE IF "critical" \notin given THEN <<Set("warning")>>
        ELSE IF "target" \notin given THEN <<Set("warning"), Set("critical")>>
        ELSE <<Set("warning"), Set("critical"), Set("target")>>

\* The calls of the for loop over the ships, up to the one that throws.
RECURSIVE ShipSetCalls(_)
ShipSetCalls(ships) ==
    IF ships = <<>> THEN <<>>
    ELSE IF Len(SetCalls(Head(ships))) < Cardinality(Components) THEN SetCalls(Head(ships))
    ELSE SetCalls(Head(ships)) \o ShipSetCalls(Tail(ships))

\* The client.set calls of initCache on the seed, in the order it awaits
\* them: the keys of every ship of the seed, then the keys
\* threshold:default:*.  When a call throws, initCache logs and exits.
ClientSets(seed) ==
    IF Len(ShipSetCalls(seed.ships)) < Cardinality(Components) * Len(seed.ships)
    THEN ShipSetCalls(seed.ships)
    ELSE ShipSetCalls(seed.ships)
         \o SetCalls([ship_id |-> "default", thresholds |-> seed.defaults])

\* Redis after initCache ran on the seed, from an empty Redis: a later set of
\* a key replaces an earlier one.
initCache(seed) ==
    LET sets == ClientSets(seed)
        Last(k) == CHOOSE i \in DOMAIN sets :
                      /\ sets[i].key = k
                      /\ \A j \in DOMAIN sets : sets[j].key = k => j <= i
    IN  [k \in {sets[i].key : i \in DOMAIN sets} |-> sets[Last(k)].value]

\* Redis as the pipeline's runs find it: cache-setup ran on the seed file.
SeedRedis == initCache(ShipThresholds)

\* Redis after cache-setup ran on a seed file that does not list ship_1.
UnseededRedis == initCache(SeedWithout("ship_1"))

\* Redis after cache-setup ran on a seed file that does not list ship_2.
HalfSeededRedis == initCache(SeedWithout("ship_2"))

\* Readings the sensors post: above, between and below the default thresholds.
Warm(ship) == [ship_id |-> ship, temp |-> -8]
Cold(ship) == [ship_id |-> ship, temp |-> -19]
Hot(ship) == [ship_id |-> ship, temp |-> -1]

\* A reading the ingestor accepts (temp is a number) with four integer digits.
FourDigits(ship) == [ship_id |-> ship, temp |-> 10^(decimalPrecision - decimalScale)]

\* Readings accepted so far: the JSON messages of the TelemetryQueue.
Accepted == {i \in DOMAIN tq : Parses(tq[i].body)}

\* ------------------------------------------------------------ cache-setup

\* One awaited client.set of initCache is answered: the key holds the value.
\* cache-setup is a process of its own; the Worker's calls may be answered
\* before it, between two of its calls, or after it.
CacheSet ==
    /\ setup # <<>>
    /\ redis' = [k \in DOMAIN redis \cup {Head(setup).key} |->
                    IF k = Head(setup).key THEN Head(setup).value ELSE redis[k]]
    /\ setup' = Tail(setup)
    /\ UNCHANGED <<windowStart, tq, eq, db, notes, wpc, wbatch, wdone, wi, wtemps, wreads,
                   epc, ebatch, edone, eops, ei, sensors, faults, webhook, stopping,
                   call, ret>>

\* ------------------------------------------------- ingestor (Component A)

\* POST /telemetry with the next reading of the sensors: a valid body with no
\* sensor_id; the k-th accepted reading carries timestamp k.
PostTelemetry ==
    /\ sensors # <<>>
    /\ LET req == Head(sensors)
           message == [ship_id |-> req.ship_id,
                       sensor_id |-> req.ship_id \o "_default_sensor",
                       temp |-> req.temp,
                       timestamp |-> Cardinality(Accepted) + 1]
       IN  tq' = SendMessage(tq, stringify(message))
    /\ sensors' = Tail(sensors)
    /\ UNCHANGED <<redis, setup, windowStart, eq, db, notes, wpc, wbatch, wdone, wi, wtemps, wreads,
                   epc, ebatch, edone, eops, ei, faults, webhook, stopping, call, ret>>

\* A field of req.body after express.json(): absent, null, a number, or a
\* string; the string of a temp is given as the sequence of its characters.
Undefined == [type |-> "undefined"]
JsonNull == [type |-> "null"]
Num(n) == [type |-> "number", value |-> n]
Str(s) == [type |-> "string", value |-> s]
Text(chars) == [type |-> "string", chars |-> chars]

\* !v: undefined, null, 0 and the empty string are falsy.
Falsy(v) ==
    \/ v.type \in {"undefined", "null"}
    \/ v.type = "number" /\ v.value = 0
    \/ v.type = "string" /\ v.value = ""

\* isNaN(parseFloat(s)): parseFloat finds no number at the start of s.
isNaNParseFloat(s) == ParsedFloat[s].literal.kind = "none"

\* The two validations of POST /telemetry: the request is answered 400.
BadRequest(body) ==
    \/ Falsy(body.ship_id) \/ Falsy(body.timestamp)
    \/ body.temp.type = "undefined"
    \/ body.temp.type = "null"
    \/ body.temp.type # "number" /\ isNaNParseFloat(body.temp.chars)

\* The message POST /telemetry builds from a request that passed.
TelemetryMessage(body) ==
    [ship_id |-> body.ship_id.value,
     sensor_id |-> IF Falsy(body.sensor_id) THEN body.ship_id.value \o "_default_sensor"
                   ELSE body.sensor_id.value,
     temp |-> parseFloat(IF body.temp.type = "number" THEN toString(body.temp.value)
                         ELSE body.temp.chars),
     timestamp |-> body.timestamp.value]

\* parseFloat(s) is Infinity or -Infinity.
Infinite(s) ==
    \/ ParsedFloat[s].literal.kind = "Infinity"
    \/ ParsedFloat[s].literal.kind = "decimal" /\ Overflows(ParsedFloat[s].literal.value)

\* JSON.stringify(message): a temp that is not finite is written as null.
MessageBody(body) ==
    IF body.temp.type = "string" /\ Infinite(body.temp.chars)
    THEN stringify([TelemetryMessage(body) EXCEPT !.temp = JsonNull])
    ELSE stringify(TelemetryMessage(body))

\* POST /telemetry with the body of `call`: 400 from a validation, or the
\* message is sent to the TelemetryQueue and the answer is 200.
PostRequest ==
    /\ call # <<>> /\ call.fn = "POST /telemetry"
    /\ ret = <<>>
    /\ IF BadRequest(call.body)
       THEN /\ tq' = tq
            /\ ret' = <<[status |-> 400]>>
       ELSE /\ tq' = SendMessage(tq, MessageBody(call.body))
            /\ ret' = <<[status |-> 200]>>
    /\ UNCHANGED <<redis, setup, windowStart, eq, db, notes, wpc, wbatch, wdone, wi, wtemps, wreads,
                   epc, ebatch, edone, eops, ei, sensors, faults, webhook, stopping, call>>

\* POST /telemetry: sqsClient.send throws; the answer is 500.
PostRequestSendThrows ==
    /\ call # <<>> /\ call.fn = "POST /telemetry"
    /\ ret = <<>>
    /\ ~BadRequest(call.body)
    /\ faults > 0
    /\ faults' = faults - 1
    /\ ret' = <<[status |-> 500]>>
    /\ UNCHANGED <<redis, setup, windowStart, tq, eq, db, notes, wpc, wbatch, wdone, wi, wtemps, wreads,
                   epc, ebatch, edone, eops, ei, sensors, webhook, stopping, call>>

\* ---------------------------------------------------------- the two queues

\* A message whose body is not JSON reaches the TelemetryQueue.
GarbageToTelemetryQueue ==
    /\ faults > 0
    /\ faults' = faults - 1
    /\ tq' = SendMessage(tq, NotJson)
    /\ UNCHANGED <<redis, setup, windowStart, eq, db, notes, wpc, wbatch, wdone, wi, wtemps, wreads,
                   epc, ebatch, edone, eops, ei, sensors, webhook, stopping, call, ret>>

\* A message whose body is not JSON reaches the EventsQueue.
GarbageToEventsQueue ==
    /\ faults > 0
    /\ faults' = faults - 1
    /\ eq' = SendMessage(eq, NotJson)
    /\ UNCHANGED <<redis, setup, windowStart, tq, db, notes, wpc, wbatch, wdone, wi, wtemps, wreads,
                   epc, ebatch, edone, eops, ei, sensors, webhook, stopping, call, ret>>

HeldByWorker(m) == \E w \in Workers : m \in Range(wbatch[w])
HeldByExecutor(m) == \E x \in Executors : m \in Range(ebatch[x])

\* A queue whose received messages stay invisible.
ReappearNever(q, m) == q

Reappear(q, m) == [q EXCEPT ![m].state = "visible"]

\* The visibility timeout (config.sqs.visibilityTimeout) of a received message
\* elapses: it can be received again.  While the receiver still works on its
\* batch this is one of the run's faults.
TelemetryTimeout(m) ==
    /\ m \in InFlight(tq)
    /\ IF HeldByWorker(m) THEN faults > 0 /\ faults' = faults - 1 ELSE faults' = faults
    /\ tq' = Reappear(tq, m)
    /\ UNCHANGED <<redis, setup, windowStart, eq, db, notes, wpc, wbatch, wdone, wi, wtemps, wreads,
                   epc, ebatch, edone, eops, ei, sensors, webhook, stopping, call, ret>>

EventTimeout(m) ==
    /\ m \in InFlight(eq)
    /\ IF HeldByExecutor(m) THEN faults > 0 /\ faults' = faults - 1 ELSE faults' = faults
    /\ eq' = Reappear(eq, m)
    /\ UNCHANGED <<redis, setup, windowStart, tq, db, notes, wpc, wbatch, wdone, wi, wtemps, wreads,
                   epc, ebatch, edone, eops, ei, sensors, webhook, stopping, call, ret>>

\* Time passes: the trend window moves past the timestamp of one more reading.
\* Only the trend query reads the clock, so time is let pass while one is due.
TimePasses ==
    /\ \E w \in Workers : wpc[w] = "query"
    /\ windowStart < Cardinality(Accepted)
    /\ windowStart' = windowStart + 1
    /\ UNCHANGED <<redis, setup, tq, eq, db, notes, wpc, wbatch, wdone, wi, wtemps, wreads,
                   epc, ebatch, edone, eops, ei, sensors, faults, webhook, stopping, call, ret>>

\* ------------------------------------------------------ startWorker's loop

WOthers == <<redis, setup, windowStart, db, notes, epc, ebatch, edone, eops, ei, sensors, webhook, stopping, call, ret>>

\* The message the for loop is at, and whether the loop is past the last one.
WCurrent(w) == wbatch[w][wi[w]]
WLoopEnded(w) == wi[w] > Len(wbatch[w])


\* A catch that acknowledges the failed message all the same.
WCatchPushes(w) ==
    /\ wdone' = [wdone EXCEPT ![w] = Append(wdone[w], WCurrent(w))]
    /\ wi' = [wi EXCEPT ![w] = wi[w] + 1]
    /\ wpc' = [wpc EXCEPT ![w] = "item"]
    /\ wtemps' = [wtemps EXCEPT ![w] = <<>>]
    /\ wreads' = [wreads EXCEPT ![w] = <<>>]

\* A catch that gives up the rest of the batch.
WCatchBreaks(w) ==
    /\ wdone' = wdone
    /\ wi' = [wi EXCEPT ![w] = Len(wbatch[w]) + 1]
    /\ wpc' = [wpc EXCEPT ![w] = "item"]
    /\ wtemps' = [wtemps EXCEPT ![w] = <<>>]
    /\ wreads' = [wreads EXCEPT ![w] = <<>>]

\* catch (err) of the for loop: the error is logged, the loop goes on.
WCatch(w) ==
    /\ wdone' = wdone
    /\ wi' = [wi EXCEPT ![w] = wi[w] + 1]
    /\ wpc' = [wpc EXCEPT ![w] = "item"]
    /\ wtemps' = [wtemps EXCEPT ![w] = <<>>]
    /\ wreads' = [wreads EXCEPT ![w] = <<>>]

\* processed.push({Id, ReceiptHandle}) after processTelemetry returned.
WPush(w) ==
    /\ wdone' = [wdone EXCEPT ![w] = Append(wdone[w], WCurrent(w))]
    /\ wi' = [wi EXCEPT ![w] = wi[w] + 1]
    /\ wpc' = [wpc EXCEPT ![w] = "item"]
    /\ wtemps' = [wtemps EXCEPT ![w] = <<>>]
    /\ wreads' = [wreads EXCEPT ![w] = <<>>]

\* The loop iteration is over: its locals go out of scope.
WNextPoll(w, pc) ==
    /\ wpc' = [wpc EXCEPT ![w] = pc]
    /\ wbatch' = [wbatch EXCEPT ![w] = <<>>]
    /\ wdone' = [wdone EXCEPT ![w] = <<>>]
    /\ wi' = [wi EXCEPT ![w] = 1]
    /\ wtemps' = [wtemps EXCEPT ![w] = <<>>]
    /\ wreads' = [wreads EXCEPT ![w] = <<>>]

\* ReceiveMessageCommand returns the messages S (at most maxMessages).
WReceive(w, S) ==
    /\ wpc[w] = "receive"
    /\ S # {} /\ S \subseteq Visible(tq) /\ Cardinality(S) <= maxMessages
    /\ tq' = Receive(tq, S)
    /\ \E batch \in Orders(S) : wbatch' = [wbatch EXCEPT ![w] = batch]
    /\ wi' = [wi EXCEPT ![w] = 1]
    /\ wtemps' = [wtemps EXCEPT ![w] = <<>>]
    /\ wreads' = [wreads EXCEPT ![w] = <<>>]
    /\ wdone' = [wdone EXCEPT ![w] = <<>>]
    /\ wpc' = [wpc EXCEPT ![w] = "item"]
    /\ UNCHANGED <<eq, faults>>
    /\ UNCHANGED WOthers

\* An empty poll result handled as a polling error.
WReceiveNothingBacksOff(w) ==
    /\ wpc[w] = "receive"
    /\ Visible(tq) = {}
    /\ wpc' = [wpc EXCEPT ![w] = "backoff"]
    /\ UNCHANGED <<tq, eq, wbatch, wdone, wi, wtemps, wreads, faults>>
    /\ UNCHANGED WOthers

\* The long poll ends with no message: a dot is written, the loop polls again.
WReceiveNothing(w) ==
    /\ wpc[w] = "receive"
    /\ Visible(tq) = {}
    /\ UNCHANGED vars

\* A receive error that ends the loop.
WReceiveThrowsExits(w) ==
    /\ wpc[w] = "receive"
    /\ faults > 0
    /\ faults' = faults - 1
    /\ wpc' = [wpc EXCEPT ![w] = "stopped"]
    /\ UNCHANGED <<tq, eq, wbatch, wdone, wi, wtemps, wreads>>
    /\ UNCHANGED WOthers

\* The receive call throws: the outer catch logs and waits errorRetryMs.
WReceiveThrows(w) ==
    /\ wpc[w] = "receive"
    /\ faults > 0
    /\ faults' = faults - 1
    /\ wpc' = [wpc EXCEPT ![w] = "backoff"]
    /\ UNCHANGED <<tq, eq, wbatch, wdone, wi, wtemps, wreads>>
    /\ UNCHANGED WOthers

\* setTimeout(resolve, config.worker.errorRetryMs) fires.
WBackoff(w) ==
    /\ wpc[w] = "backoff"
    /\ wpc' = [wpc EXCEPT ![w] = "receive"]
    /\ UNCHANGED <<tq, eq, wbatch, wdone, wi, wtemps, wreads, faults>>
    /\ UNCHANGED WOthers

\* A for loop that acknowledges a message it cannot parse.
WParseThrowsAcks(w) ==
    /\ wpc[w] = "item" /\ ~WLoopEnded(w)
    /\ ~Parses(tq[WCurrent(w)].body)
    /\ WPush(w)
    /\ UNCHANGED <<tq, eq, wbatch, faults>>
    /\ UNCHANGED WOthers

\* JSON.parse(msg.Body) throws.
WParseThrows(w) ==
    /\ wpc[w] = "item" /\ ~WLoopEnded(w)
    /\ ~Parses(tq[WCurrent(w)].body)
    /\ WCatch(w)
    /\ UNCHANGED <<tq, eq, wbatch, faults>>
    /\ UNCHANGED WOthers

\* A processTelemetry that publishes its event twice.
WPublishTwice(w) ==
    /\ wpc[w] = "item" /\ ~WLoopEnded(w)
    /\ Parses(tq[WCurrent(w)].body)
    /\ Len(wreads[w]) = 3
    /\ LET body == stringify(TelemetryEvent(parse(tq[WCurrent(w)].body), wreads[w]))
       IN  eq' = SendMessage(SendMessage(eq, body), body)
    /\ wpc' = [wpc EXCEPT ![w] = "query"]
    /\ wreads' = [wreads EXCEPT ![w] = <<>>]
    /\ UNCHANGED <<tq, wbatch, wdone, wi, wtemps, faults>>
    /\ UNCHANGED WOthers

\* A processTelemetry that runs the trend check before it publishes the
\* ordinary event.
WPublishAfterTrend(w) ==
    /\ wpc[w] = "item" /\ ~WLoopEnded(w)
    /\ Parses(tq[WCurrent(w)].body)
    /\ Len(wreads[w]) = 3
    /\ LET body == stringify(TelemetryEvent(parse(tq[WCurrent(w)].body), wreads[w]))
           shipId == parse(tq[WCurrent(w)].body).ship_id
           trend == checkTemperatureTrend(shipId, trendTemps(shipId))
       IN  eq' = IF trend = <<>> THEN SendMessage(eq, body)
                 ELSE SendMessage(SendMessage(eq, stringify(trend[1])), body)
    /\ wpc' = [wpc EXCEPT ![w] = "query"]
    /\ wreads' = [wreads EXCEPT ![w] = <<>>]
    /\ UNCHANGED <<tq, wbatch, wdone, wi, wtemps, faults>>
    /\ UNCHANGED WOthers

\* A processTelemetry that publishes nothing for a reading whose ordinary
\* event the EventsQueue already holds.
WPublishOnce(w) ==
    /\ wpc[w] = "item" /\ ~WLoopEnded(w)
    /\ Parses(tq[WCurrent(w)].body)
    /\ Len(wreads[w]) = 3
    /\ LET body == stringify(TelemetryEvent(parse(tq[WCurrent(w)].body), wreads[w]))
       IN  eq' = IF \E j \in DOMAIN eq : eq[j].body = body THEN eq ELSE SendMessage(eq, body)
    /\ wpc' = [wpc EXCEPT ![w] = "query"]
    /\ wreads' = [wreads EXCEPT ![w] = <<>>]
    /\ UNCHANGED <<tq, wbatch, wdone, wi, wtemps, faults>>
    /\ UNCHANGED WOthers

\* One awaited redis.get of getThresholds is answered: the reply is what
\* Redis holds under the key, or null.
WGet(w) ==
    /\ wpc[w] = "item" /\ ~WLoopEnded(w)
    /\ Parses(tq[WCurrent(w)].body)
    /\ Len(wreads[w]) < 3
    /\ stopping[w] = "no"
    /\ wreads' = [wreads EXCEPT ![w] =
                     Append(wreads[w], redisGet(parse(tq[WCurrent(w)].body).ship_id,
                                                ThresholdKeys[Len(wreads[w]) + 1]))]
    /\ UNCHANGED <<tq, eq, wpc, wbatch, wdone, wi, wtemps, faults>>
    /\ UNCHANGED WOthers

\* The Worker makes its redis.get once shutdown() has called redis.quit(),
\* or its db.query once shutdown() has called db.end(): the closed client
\* rejects the call, processTelemetry throws and the for loop's catch goes
\* on.  The calls to SQS are answered to the end.
WRefused(w) ==
    /\ \/ /\ wpc[w] = "item" /\ ~WLoopEnded(w) /\ Parses(tq[WCurrent(w)].body)
          /\ Len(wreads[w]) < 3
          /\ stopping[w] # "no"
       \/ wpc[w] = "query" /\ stopping[w] = "end"
    /\ WCatch(w)
    /\ UNCHANGED <<tq, eq, wbatch, faults>>
    /\ UNCHANGED WOthers

\* getThresholds returned, the event is built, and the awaited send of
\* publishEvent(event) is answered.
WPublish(w) ==
    /\ wpc[w] = "item" /\ ~WLoopEnded(w)
    /\ Parses(tq[WCurrent(w)].body)
    /\ Len(wreads[w]) = 3
    /\ eq' = SendMessage(eq, stringify(TelemetryEvent(parse(tq[WCurrent(w)].body), wreads[w])))
    /\ wpc' = [wpc EXCEPT ![w] = "query"]
    /\ wreads' = [wreads EXCEPT ![w] = <<>>]
    /\ UNCHANGED <<tq, wbatch, wdone, wi, wtemps, faults>>
    /\ UNCHANGED WOthers

\* A failed getThresholds or publishEvent whose reading is acknowledged all
\* the same.
WPublishThrowsAcks(w) ==
    /\ wpc[w] = "item" /\ ~WLoopEnded(w)
    /\ Parses(tq[WCurrent(w)].body)
    /\ faults > 0
    /\ faults' = faults - 1
    /\ WPush(w)
    /\ UNCHANGED <<tq, eq, wbatch>>
    /\ UNCHANGED WOthers

\* getThresholds (a redis.get) or publishEvent (the send) throws.
WPublishThrows(w) ==
    /\ wpc[w] = "item" /\ ~WLoopEnded(w)
    /\ Parses(tq[WCurrent(w)].body)
    /\ faults > 0
    /\ faults' = faults - 1
    /\ WCatch(w)
    /\ UNCHANGED <<tq, eq, wbatch>>
    /\ UNCHANGED WOthers

\* The ship of the message the for loop is at.
WShip(w) == parse(tq[WCurrent(w)].body).ship_id

\* A trend check that puts the temp of the reading it is called for in front
\* of the rows of its query.
WQueryWithReading(w) ==
    /\ wpc[w] = "query"
    /\ stopping[w] # "end"
    /\ wtemps' = [wtemps EXCEPT ![w] =
                    <<parse(tq[WCurrent(w)].body).temp>> \o trendTemps(WShip(w))]
    /\ wpc' = [wpc EXCEPT ![w] = "trend"]
    /\ UNCHANGED <<tq, eq, wbatch, wdone, wi, wreads, faults>>
    /\ UNCHANGED WOthers

\* checkTemperatureTrend's query returns its rows.
WQuery(w) ==
    /\ wpc[w] = "query"
    /\ stopping[w] # "end"
    /\ wtemps' = [wtemps EXCEPT ![w] = trendTemps(WShip(w))]
    /\ wpc' = [wpc EXCEPT ![w] = "trend"]
    /\ UNCHANGED <<tq, eq, wbatch, wdone, wi, wreads, faults>>
    /\ UNCHANGED WOthers

\* A failed query whose message is acknowledged all the same.
WQueryThrowsAcks(w) ==
    /\ wpc[w] = "query"
    /\ faults > 0
    /\ faults' = faults - 1
    /\ WPush(w)
    /\ UNCHANGED <<tq, eq, wbatch>>
    /\ UNCHANGED WOthers

\* checkTemperatureTrend's query throws.
WQueryThrows(w) ==
    /\ wpc[w] = "query"
    /\ faults > 0
    /\ faults' = faults - 1
    /\ WCatch(w)
    /\ UNCHANGED <<tq, eq, wbatch>>
    /\ UNCHANGED WOthers

\* A trend check that writes the alert row itself.
WTrendStoresAlert(w) ==
    /\ wpc[w] = "trend"
    /\ eq' = IF checkTemperatureTrend(WShip(w), wtemps[w]) = <<>> THEN eq
             ELSE SendMessage(eq, stringify(checkTemperatureTrend(WShip(w), wtemps[w])[1]))
    /\ db' = IF checkTemperatureTrend(WShip(w), wtemps[w]) = <<>> THEN db
             ELSE LET e == checkTemperatureTrend(WShip(w), wtemps[w])[1]
                  IN  storeAlert(e.telemetry, e.evaluation, TREND_ALERT)
    /\ WPush(w)
    /\ UNCHANGED <<tq, wbatch, faults>>
    /\ UNCHANGED <<redis, setup, windowStart, notes, epc, ebatch, edone, eops, ei, sensors,
                   webhook, stopping, call, ret>>

\* checkTemperatureTrend publishes its event or not and returns;
\* processTelemetry returns; the message is pushed on processed.
WTrend(w) ==
    /\ wpc[w] = "trend"
    /\ eq' = IF checkTemperatureTrend(WShip(w), wtemps[w]) = <<>> THEN eq
             ELSE SendMessage(eq, stringify(checkTemperatureTrend(WShip(w), wtemps[w])[1]))
    /\ WPush(w)
    /\ UNCHANGED <<tq, wbatch, faults>>
    /\ UNCHANGED WOthers

\* The send of the trend event throws.
WTrendThrows(w) ==
    /\ wpc[w] = "trend"
    /\ trendDetected(wtemps[w])
    /\ faults > 0
    /\ faults' = faults - 1
    /\ WCatch(w)
    /\ UNCHANGED <<tq, eq, wbatch>>
    /\ UNCHANGED WOthers

\* A loop that deletes what is on processed[] before the for loop is over.
WDeleteBeforeEnd(w) ==
    /\ wpc[w] = "item"
    /\ wdone[w] # <<>>
    /\ tq' = DeleteMessageBatch(tq, Range(wdone[w]))
    /\ WNextPoll(w, "receive")
    /\ UNCHANGED <<eq, faults>>
    /\ UNCHANGED WOthers

\* DeleteMessageBatchCommand with Entries: processed.
WDelete(w) ==
    /\ wpc[w] = "item" /\ WLoopEnded(w)
    /\ wdone[w] # <<>>
    /\ tq' = DeleteMessageBatch(tq, Range(wdone[w]))
    /\ WNextPoll(w, "receive")
    /\ UNCHANGED <<eq, faults>>
    /\ UNCHANGED WOthers

\* A delete call that throws after the queue removed the messages.
WDeleteThrowsRemoves(w) ==
    /\ wpc[w] = "item" /\ WLoopEnded(w)
    /\ wdone[w] # <<>>
    /\ faults > 0
    /\ faults' = faults - 1
    /\ tq' = DeleteMessageBatch(tq, Range(wdone[w]))
    /\ WNextPoll(w, "backoff")
    /\ UNCHANGED eq
    /\ UNCHANGED WOthers

\* The delete call throws: the outer catch logs and waits errorRetryMs.
WDeleteThrows(w) ==
    /\ wpc[w] = "item" /\ WLoopEnded(w)
    /\ wdone[w] # <<>>
    /\ faults > 0
    /\ faults' = faults - 1
    /\ WNextPoll(w, "backoff")
    /\ UNCHANGED <<tq, eq>>
    /\ UNCHANGED WOthers

\* processed is empty: no delete call is made.
WNothingToDelete(w) ==
    /\ wpc[w] = "item" /\ WLoopEnded(w)
    /\ wdone[w] = <<>>
    /\ WNextPoll(w, "receive")
    /\ UNCHANGED <<tq, eq, faults>>
    /\ UNCHANGED WOthers

\* SIGINT or SIGTERM: shutdown() logs, calls redis.quit() and waits for it.
\* startWorker's loop is not told: it goes on, and the redis.get calls it
\* makes from now on are rejected.  (A step of the loop is a call made and
\* answered: a call the signal finds under way is a step before the signal.)
WSignal(w) ==
    /\ wpc[w] # "stopped"
    /\ stopping[w] = "no"
    /\ stopping' = [stopping EXCEPT ![w] = "quit"]
    /\ UNCHANGED <<redis, setup, windowStart, tq, eq, db, notes, wpc, wbatch, wdone,
                   epc, ebatch, edone, eops, sensors, faults, wi, wtemps, wreads, ei,
                   webhook, call, ret>>

\* redis.quit() returned: shutdown() calls db.end() and waits for it.  The
\* db.query calls the loop makes from now on are rejected.
WQuitReturns(w) ==
    /\ wpc[w] # "stopped"
    /\ stopping[w] = "quit"
    /\ stopping' = [stopping EXCEPT ![w] = "end"]
    /\ UNCHANGED <<redis, setup, windowStart, tq, eq, db, notes, wpc, wbatch, wdone,
                   epc, ebatch, edone, eops, sensors, faults, wi, wtemps, wreads, ei,
                   webhook, call, ret>>

\* A shutdown handler that deletes the messages the Worker holds.
WShutdownAcks(w) ==
    /\ wpc[w] # "stopped"
    /\ stopping[w] = "end"
    /\ tq' = DeleteMessageBatch(tq, Range(wbatch[w]))
    /\ WNextPoll(w, "stopped")
    /\ UNCHANGED <<eq, faults>>
    /\ UNCHANGED WOthers

\* db.end() returned: process.exit(0). The process exits wherever its loop
\* is by then; what it held in memory is gone.
WShutdown(w) ==
    /\ wpc[w] # "stopped"
    /\ stopping[w] = "end"
    /\ WNextPoll(w, "stopped")
    /\ UNCHANGED <<tq, eq, faults>>
    /\ UNCHANGED WOthers

\* ---------------------------------------------------- startExecutor's loop

EOthers == <<redis, setup, windowStart, tq, wpc, wbatch, wdone, wi, wtemps, wreads, sensors, webhook, stopping, call, ret>>

ECurrent(x) == ebatch[x][ei[x]]
ELoopEnded(x) == ei[x] > Len(ebatch[x])
EEvent(x) == parse(eq[ECurrent(x)].body)


\* catch (err) of the for loop: the error is logged, the loop goes on.
ECatch(x) ==
    /\ edone' = edone
    /\ eops' = [eops EXCEPT ![x] = <<>>]
    /\ ei' = [ei EXCEPT ![x] = ei[x] + 1]
    /\ epc' = [epc EXCEPT ![x] = "item"]

\* processed.push({Id, ReceiptHandle}) after processEvent returned.
EPush(x) ==
    /\ edone' = [edone EXCEPT ![x] = Append(edone[x], ECurrent(x))]
    /\ eops' = [eops EXCEPT ![x] = <<>>]
    /\ ei' = [ei EXCEPT ![x] = ei[x] + 1]
    /\ epc' = [epc EXCEPT ![x] = "item"]

\* A processEvent that returns after its first awaited call.
EReturnSkipsRest(x, rest) == EPush(x)

\* One awaited call of processEvent returned: the next one is made, or
\* processEvent returns.
EReturn(x, rest) ==
    IF rest = <<>> THEN EPush(x)
    ELSE /\ eops' = [eops EXCEPT ![x] = rest]
         /\ epc' = [epc EXCEPT ![x] = "event"]
         /\ UNCHANGED <<edone, ei>>

ENextPoll(x, pc) ==
    /\ epc' = [epc EXCEPT ![x] = pc]
    /\ ebatch' = [ebatch EXCEPT ![x] = <<>>]
    /\ edone' = [edone EXCEPT ![x] = <<>>]
    /\ eops' = [eops EXCEPT ![x] = <<>>]
    /\ ei' = [ei EXCEPT ![x] = 1]

EReceive(x, S) ==
    /\ epc[x] = "receive"
    /\ S # {} /\ S \subseteq Visible(eq) /\ Cardinality(S) <= maxMessages
    /\ eq' = Receive(eq, S)
    /\ \E batch \in Orders(S) : ebatch' = [ebatch EXCEPT ![x] = batch]
    /\ ei' = [ei EXCEPT ![x] = 1]
    /\ edone' = [edone EXCEPT ![x] = <<>>]
    /\ epc' = [epc EXCEPT ![x] = "item"]
    /\ UNCHANGED <<db, notes, eops, faults>>
    /\ UNCHANGED EOthers

EReceiveNothing(x) ==
    /\ epc[x] = "receive"
    /\ Visible(eq) = {}
    /\ UNCHANGED vars

EReceiveThrows(x) ==
    /\ epc[x] = "receive"
    /\ faults > 0
    /\ faults' = faults - 1
    /\ epc' = [epc EXCEPT ![x] = "backoff"]
    /\ UNCHANGED <<eq, db, notes, ebatch, edone, eops, ei>>
    /\ UNCHANGED EOthers

\* setTimeout(resolve, config.executor.errorRetryMs) fires.
EBackoff(x) ==
    /\ epc[x] = "backoff"
    /\ epc' = [epc EXCEPT ![x] = "receive"]
    /\ UNCHANGED <<eq, db, notes, ebatch, edone, eops, ei, faults>>
    /\ UNCHANGED EOthers

\* JSON.parse(msg.Body) throws.
EParseThrows(x) ==
    /\ epc[x] = "item" /\ ~ELoopEnded(x)
    /\ ~Parses(eq[ECurrent(x)].body)
    /\ ECatch(x)
    /\ UNCHANGED <<eq, db, notes, ebatch, faults>>
    /\ UNCHANGED EOthers

\* processEvent(event) starts: its for loop reaches the first awaited call,
\* or ends without one.
EProcess(x) ==
    /\ epc[x] = "item" /\ ~ELoopEnded(x)
    /\ Parses(eq[ECurrent(x)].body)
    /\ EReturn(x, processEvent(EEvent(x).evaluation.actions))
    /\ UNCHANGED <<eq, db, notes, ebatch, faults>>
    /\ UNCHANGED EOthers

\* The row the store call at the head of eops inserts.
ERow(x) ==
    LET c == Head(eops[x])
        e == EEvent(x)
    IN  IF c.fn = "storeTelemetry" THEN TelemetryRow(e.telemetry)
        ELSE IF c.fn = "storeAlert" THEN AlertRow(e.telemetry, e.evaluation, c.action)
        ELSE ActionRow(e.telemetry, e.evaluation.thresholds.target)

\* The awaited store call at the head of eops returns.
EStore(x) ==
    /\ epc[x] = "event"
    /\ stopping[x] # "end"
    /\ LET c == Head(eops[x])
           e == EEvent(x)
       IN  /\ c.fn # "sendNotification"
           /\ Insertable(ERow(x))
           /\ db' = IF c.fn = "storeTelemetry" THEN storeTelemetry(e.telemetry)
                    ELSE IF c.fn = "storeAlert"
                         THEN storeAlert(e.telemetry, e.evaluation, c.action)
                    ELSE storeTemperatureAction(e.telemetry, e.evaluation.thresholds.target)
    /\ EReturn(x, Tail(eops[x]))
    /\ UNCHANGED <<eq, notes, ebatch, faults>>
    /\ UNCHANGED EOthers

\* A failed store call that takes back the rows processEvent wrote for the
\* event before it.
EStoreThrowsRollsBack(x) ==
    /\ epc[x] = "event"
    /\ Head(eops[x]).fn # "sendNotification"
    /\ faults > 0
    /\ faults' = faults - 1
    /\ LET all == processEvent(EEvent(x).evaluation.actions)
           made == SubSeq(all, 1, Len(all) - Len(eops[x]))
           stores == SelectSeq(made, LAMBDA c : c.fn # "sendNotification")
       IN  db' = SubSeq(db, 1, Len(db) - Len(stores))
    /\ ECatch(x)
    /\ UNCHANGED <<eq, notes, ebatch>>
    /\ UNCHANGED EOthers

\* The awaited store call throws (db.query rejects): processEvent throws.
EStoreThrows(x) ==
    /\ epc[x] = "event"
    /\ Head(eops[x]).fn # "sendNotification"
    /\ faults > 0
    /\ faults' = faults - 1
    /\ ECatch(x)
    /\ UNCHANGED <<eq, db, notes, ebatch>>
    /\ UNCHANGED EOthers

\* The Executor makes the db.query of its store call once shutdown() has
\* called db.end(): the closed pool rejects it, processEvent throws and the
\* for loop's catch goes on.  The calls to SQS and the webhook are answered
\* to the end.
ERefused(x) ==
    /\ epc[x] = "event"
    /\ Head(eops[x]).fn # "sendNotification"
    /\ stopping[x] = "end"
    /\ ECatch(x)
    /\ UNCHANGED <<eq, db, notes, ebatch, faults>>
    /\ UNCHANGED EOthers

\* The INSERT of the awaited store call is refused by PostgreSQL, as it is
\* every time this row is inserted: db.query rejects, processEvent throws.
EStoreRefused(x) ==
    /\ epc[x] = "event"
    /\ stopping[x] # "end"
    /\ Head(eops[x]).fn # "sendNotification"
    /\ ~Insertable(ERow(x))
    /\ ECatch(x)
    /\ UNCHANGED <<eq, db, notes, ebatch, faults>>
    /\ UNCHANGED EOthers

\* sendNotification: fetch returns.
ENotify(x) ==
    /\ epc[x] = "event"
    /\ Head(eops[x]).fn = "sendNotification"
    /\ notes' = Append(notes, Notification(EEvent(x).telemetry, EEvent(x).evaluation, TRUE))
    /\ EReturn(x, Tail(eops[x]))
    /\ UNCHANGED <<eq, db, ebatch, faults>>
    /\ UNCHANGED EOthers

\* A sendNotification that lets the error of fetch through to processEvent.
ENotifyThrowsRethrows(x) ==
    /\ epc[x] = "event"
    /\ Head(eops[x]).fn = "sendNotification"
    /\ faults > 0
    /\ faults' = faults - 1
    /\ notes' = Append(notes, Notification(EEvent(x).telemetry, EEvent(x).evaluation, FALSE))
    /\ ECatch(x)
    /\ UNCHANGED <<eq, db, ebatch>>
    /\ UNCHANGED EOthers

\* sendNotification: fetch throws; the error is logged and swallowed.
ENotifyThrows(x) ==
    /\ epc[x] = "event"
    /\ Head(eops[x]).fn = "sendNotification"
    /\ faults > 0
    /\ faults' = faults - 1
    /\ notes' = Append(notes, Notification(EEvent(x).telemetry, EEvent(x).evaluation, FALSE))
    /\ EReturn(x, Tail(eops[x]))
    /\ UNCHANGED <<eq, db, ebatch>>
    /\ UNCHANGED EOthers

EDelete(x) ==
    /\ epc[x] = "item" /\ ELoopEnded(x)
    /\ edone[x] # <<>>
    /\ eq' = DeleteMessageBatch(eq, Range(edone[x]))
    /\ ENextPoll(x, "receive")
    /\ UNCHANGED <<db, notes, faults>>
    /\ UNCHANGED EOthers

EDeleteThrows(x) ==
    /\ epc[x] = "item" /\ ELoopEnded(x)
    /\ edone[x] # <<>>
    /\ faults > 0
    /\ faults' = faults - 1
    /\ ENextPoll(x, "backoff")
    /\ UNCHANGED <<eq, db, notes>>
    /\ UNCHANGED EOthers

ENothingToDelete(x) ==
    /\ epc[x] = "item" /\ ELoopEnded(x)
    /\ edone[x] = <<>>
    /\ ENextPoll(x, "receive")
    /\ UNCHANGED <<eq, db, notes, faults>>
    /\ UNCHANGED EOthers

\* SIGINT or SIGTERM: shutdown() logs, calls db.end() and waits for it.
\* startExecutor's loop is not told: it goes on, and the db.query calls it
\* makes from now on are rejected.
ESignal(x) ==
    /\ epc[x] # "stopped"
    /\ stopping[x] = "no"
    /\ stopping' = [stopping EXCEPT ![x] = "end"]
    /\ UNCHANGED <<redis, setup, windowStart, tq, eq, db, notes, wpc, wbatch, wdone,
                   epc, ebatch, edone, eops, sensors, faults, wi, wtemps, wreads, ei,
                   webhook, call, ret>>

\* db.end() returned: process.exit(0). The process exits wherever its loop
\* is by then; what it held in memory is gone.
EShutdown(x) ==
    /\ epc[x] # "stopped"
    /\ stopping[x] = "end"
    /\ ENextPoll(x, "stopped")
    /\ UNCHANGED <<eq, db, notes, faults>>
    /\ UNCHANGED EOthers

\* ---------------------------------------------------------- specification

\* The processes `workers` and `executors` are started (the others are not),
\* the sensors will post `script`, and up to `f` transient failures occur.
Setup(workers, executors, script, f) ==
    /\ tq = <<>>
    /\ eq = <<>>
    /\ notes = <<>>
    /\ wpc = [w \in Workers |-> IF w \in workers THEN "receive" ELSE "stopped"]
    /\ wbatch = [w \in Workers |-> <<>>]
    /\ wdone = [w \in Workers |-> <<>>]
    /\ wi = [w \in Workers |-> 1]
    /\ wtemps = [w \in Workers |-> <<>>]
    /\ wreads = [w \in Workers \cup {"call"} |-> <<>>]
    /\ epc = [x \in Executors |-> IF x \in executors THEN "receive" ELSE "stopped"]
    /\ ebatch = [x \in Executors |-> <<>>]
    /\ edone = [x \in Executors |-> <<>>]
    /\ eops = [x \in Executors |-> <<>>]
    /\ ei = [x \in Executors |-> 1]
    /\ sensors = script
    /\ faults = f
    /\ stopping = [p \in Workers \cup Executors |-> "no"]

\* The readings a run's sensor posts.
Readings == {Warm("ship_1"), FourDigits("ship_1")}

\* Two Workers and two Executors run; one sensor of ship_1 posts a reading,
\* between the default thresholds or beyond the range of the temperature
\* column; the webhook is configured.
Init ==
    /\ \E reading \in Readings : Setup(Workers, Executors, <<reading>>, MaxFaults)
    /\ webhook = TRUE
    /\ redis = SeedRedis
    /\ setup = <<>>
    /\ db = SeedHistory
    /\ windowStart = -2
    /\ call = <<>>
    /\ ret = <<>>

WorkerRuns(w) ==
    \/ \E S \in SUBSET Visible(tq) : WReceive(w, S)
    \/ WReceiveNothing(w)
    \/ WBackoff(w)
    \/ WGet(w)
    \/ WPublish(w)
    \/ WQuery(w)
    \/ WTrend(w)
    \/ WDelete(w)
    \/ WNothingToDelete(w)

WorkerFails(w) ==
    \/ WReceiveThrows(w)
    \/ WParseThrows(w)
    \/ WPublishThrows(w)
    \/ WQueryThrows(w)
    \/ WTrendThrows(w)
    \/ WDeleteThrows(w)

ExecutorRuns(x) ==
    \/ \E S \in SUBSET Visible(eq) : EReceive(x, S)
    \/ EReceiveNothing(x)
    \/ EBackoff(x)
    \/ EProcess(x)
    \/ EStore(x)
    \/ EStoreRefused(x)
    \/ ENotify(x)
    \/ EDelete(x)
    \/ ENothingToDelete(x)

ExecutorFails(x) ==
    \/ EReceiveThrows(x)
    \/ EParseThrows(x)
    \/ EStoreThrows(x)
    \/ ENotifyThrows(x)
    \/ EDeleteThrows(x)

Timeouts ==
    \/ \E m \in DOMAIN tq : TelemetryTimeout(m)
    \/ \E m \in DOMAIN eq : EventTimeout(m)

Garbage ==
    \/ GarbageToTelemetryQueue
    \/ GarbageToEventsQueue

Next ==
    \/ PostTelemetry
    \/ TimePasses
    \/ Timeouts
    \/ Garbage
    \/ \E w \in Workers : WorkerRuns(w) \/ WorkerFails(w)
    \/ \E x \in Executors : ExecutorRuns(x) \/ ExecutorFails(x)

Spec == Init /\ [][Next]_vars

\* ------------------------------------------ the Worker's functions, called

Temps == (-MaxTemp)..MaxTemp

\* Redis as a getThresholds call for the ship can find it: of the ship's three
\* keys those of `present` hold toString of their number and redis.get
\* answers null for the others; the other ships hold all three keys.
StoredRedis(shipId, present, value) ==
    [k \in {key \in Ships \X Components : key[1] = shipId => key[2] \in present} |->
        IF k[1] = shipId THEN toString(value[k[2]]) ELSE toString(MaxTemp)]

\* The calls under test; a call of getThresholds is made with cache-setup
\* finished, or (writer) while cache-setup runs on the seed file.
Calls ==
    {[fn |-> "determineAlertType", temp |-> v,
      thresholds |-> [warning |-> tw, critical |-> tc, target |-> defaultTarget]] :
        v \in Temps, tw \in Temps, tc \in Temps}
    \cup {[fn |-> "determineActions", alertType |-> a] : a \in alertTypes}
    \cup {[fn |-> "getThresholds", shipId |-> s, present |-> P, value |-> val, writer |-> FALSE] :
            s \in Ships, P \in SUBSET Components, val \in [Components -> Temps]}
    \cup {[fn |-> "getThresholds", shipId |-> s, present |-> P, value |-> val, writer |-> TRUE] :
            s \in Ships, P \in SUBSET Components, val \in [Components -> {0, MaxTemp}]}

InitFn ==
    /\ Setup({}, {}, <<>>, 0)
    /\ webhook = TRUE
    /\ db = <<>>
    /\ windowStart = 0
    /\ call \in Calls
    /\ redis = IF call.fn = "getThresholds"
               THEN StoredRedis(call.shipId, call.present, call.value)
               ELSE SeedRedis
    /\ setup = IF call.fn = "getThresholds" /\ call.writer
               THEN ClientSets(ShipThresholds)
               ELSE <<>>
    /\ ret = <<>>

Returns(value) ==
    /\ ret = <<>>
    /\ ret' = <<value>>
    /\ UNCHANGED <<redis, setup, windowStart, tq, eq, db, notes, wpc, wbatch, wdone, wi,
                   wtemps, wreads, epc, ebatch, edone, eops, ei, sensors, faults, webhook,
                   stopping, call>>

CallDetermineAlertType ==
    /\ call.fn = "determineAlertType"
    /\ Returns(determineAlertType(call.temp, call.thresholds))

CallDetermineActions ==
    /\ call.fn = "determineActions"
    /\ Returns(determineActions(call.alertType))

\* One awaited redis.get of the call of getThresholds is answered.
CallRedisGet ==
    /\ call.fn = "getThresholds"
    /\ Len(wreads["call"]) < 3
    /\ wreads' = [wreads EXCEPT !["call"] =
                     Append(wreads["call"],
                            redisGet(call.shipId, ThresholdKeys[Len(wreads["call"]) + 1]))]
    /\ UNCHANGED <<redis, setup, windowStart, tq, eq, db, notes, wpc, wbatch, wdone, wi,
                   wtemps, epc, ebatch, edone, eops, ei, sensors, faults, webhook,
                   stopping, call, ret>>

\* The three calls are answered: getThresholds returns.
CallGetThresholds ==
    /\ call.fn = "getThresholds"
    /\ Len(wreads["call"]) = 3
    /\ Returns(getThresholds(wreads["call"]))

NextFn ==
    \/ CallDetermineAlertType
    \/ CallDetermineActions
    \/ CallRedisGet
    \/ CallGetThresholds
    \/ CacheSet

SpecFn == InitFn /\ [][NextFn]_vars

Returned(fn) == call # <<>> /\ call.fn = fn /\ ret # <<>>

\* C6 as claimed: for every value and thresholds record, in any order of
\* warning and critical, determineAlertType is CRITICAL iff v > critical,
\* WARNING iff warning < v <= critical, NORMAL iff v <= warning.
C6_ClassifyAsClaimed ==
    Returned("determineAlertType") =>
        LET v == call.temp
            t == call.thresholds
        IN  /\ (ret[1] = CRITICAL) <=> (v > t.critical)
            /\ (ret[1] = WARNING) <=> (t.warning < v /\ v <= t.critical)
            /\ (ret[1] = NORMAL) <=> (v <= t.warning)

\* C6, amended: determineAlertType is CRITICAL iff v > critical, WARNING iff
\* warning < v <= critical, NORMAL iff v <= warning and v <= critical; a value
\* equal to a threshold is classified at the lower severity.
C6_Classify ==
    Returned("determineAlertType") =>
        LET v == call.temp
            t == call.thresholds
        IN  /\ (ret[1] = CRITICAL) <=> (v > t.critical)
            /\ (ret[1] = WARNING) <=> (t.warning < v /\ v <= t.critical)
            /\ (ret[1] = NORMAL) <=> (v <= t.warning /\ v <= t.critical)
            /\ (v = t.critical => ret[1] # CRITICAL)
            /\ (v = t.warning => ret[1] # WARNING)

\* A value equal to the critical threshold and above the warning threshold was
\* classified WARNING.
C6_Witness ==
    /\ Returned("determineAlertType")
    /\ call.temp = call.thresholds.critical
    /\ call.thresholds.warning < call.temp
    /\ ret[1] = WARNING

\* C7: determineActions yields a non-empty list for each of the four alert
\* types: CRITICAL -> [LOG, ADJUST_TEMPERATURE, NOTIFY_CRITICAL], WARNING ->
\* [LOG, NOTIFY_WARNING], NORMAL -> [LOG], each in that order.
C7_Actions ==
    Returned("determineActions") =>
        /\ ret[1] # <<>>
        /\ call.alertType = CRITICAL => ret[1] = <<LOG, ADJUST_TEMPERATURE, NOTIFY_CRITICAL>>
        /\ call.alertType = WARNING => ret[1] = <<LOG, NOTIFY_WARNING>>
        /\ call.alertType = NORMAL => ret[1] = <<LOG>>

\* determineActions returned the three actions of CRITICAL.
C7_Witness ==
    /\ Returned("determineActions")
    /\ call.alertType = CRITICAL
    /\ Len(ret[1]) = 3

DefaultThreshold(c) ==
    IF c = "warning" THEN defaultWarning
    ELSE IF c = "critical" THEN defaultCritical
    ELSE defaultTarget

\* The thresholds cache-setup stores for the ship.
Seeded(shipId) ==
    LET i == CHOOSE i \in DOMAIN ShipThresholds.ships :
                 ShipThresholds.ships[i].ship_id = shipId
    IN  ShipThresholds.ships[i].thresholds

\* C8: for each of warning, critical and target, getThresholds returns the
\* number stored under the ship's key when the key is present and the default
\* of that component when it is absent, whatever subset of keys is present:
\* the number is the one that was stored as the key was read, which is the
\* one stored before the call unless cache-setup has set the key since.
C8_Fallback ==
    Returned("getThresholds") =>
        \A i \in 1..3 :
            LET c == ThresholdKeys[i]
                reply == wreads["call"][i]
                before == IF c \in call.present THEN call.value[c] ELSE DefaultThreshold(c)
            IN  /\ reply = Null => ret[1][c] = DefaultThreshold(c)
                /\ reply # Null => toString(ret[1][c]) = reply
                /\ ret[1][c] \in {before, Seeded(call.shipId)[c]}
                /\ ~call.writer => ret[1][c] = before

\* Only critical was stored: the stored critical came back with the default
\* warning.
C8_Witness ==
    /\ Returned("getThresholds")
    /\ ~call.writer
    /\ call.present = {"critical"}
    /\ call.value["critical"] # defaultCritical
    /\ ret[1].critical = call.value["critical"]
    /\ ret[1].warning = defaultWarning

\* --------------------------------- the Worker against a given history table

TrendTemps == {-9, -6, -4, -3}

\* telemetry_readings holding the temperatures `temps` (oldest first) of
\* ship_1, with timestamps up to 0, inserted oldest first or newest first.
History(temps, newestFirst) ==
    [i \in DOMAIN temps |->
        LET k == IF newestFirst THEN Len(temps) + 1 - i ELSE i
        IN  [table |-> "telemetry_readings", ship_id |-> "ship_1", sensor_id |-> "s1",
             temperature |-> temps[k], timestamp |-> k - Len(temps)]]

Histories ==
    {History(temps, o) : temps \in UNION {[1..n -> TrendTemps] : n \in 0..MaxRows},
                         o \in BOOLEAN}

\* One Worker runs, no Executor; a sensor of ship_1 or of ship_2 posts one
\* reading; nothing fails.
InitTrend ==
    /\ \E ship \in Ships : Setup({"w1"}, {}, <<Cold(ship)>>, 0)
    /\ webhook = TRUE
    /\ redis = SeedRedis
    /\ setup = <<>>
    /\ db \in Histories
    /\ windowStart = -MaxRows
    /\ call = <<>>
    /\ ret = <<>>

NextTrend ==
    \/ PostTelemetry
    \/ TimePasses
    \/ \E S \in SUBSET Visible(tq) : WReceive("w1", S)
    \/ WReceiveNothing("w1")
    \/ WGet("w1")
    \/ WPublish("w1")
    \/ WQuery("w1")
    \/ WTrend("w1")
    \/ WDelete("w1")

SpecTrend == InitTrend /\ [][NextTrend]_vars

IsEvent(q, i, type) == Parses(q[i].body) /\ parse(q[i].body).event_type = type
Events(q, type) == {i \in DOMAIN q : IsEvent(q, i, type)}

\* A step in which Worker w's checkTemperatureTrend returned.
TrendChecked(w) == wpc[w] = "trend" /\ Len(wdone'[w]) > Len(wdone[w])

\* C9: checkTemperatureTrend publishes a TREND_ANOMALY event if and only if
\* its newest-first sample has at least trendMinReadings rows, at least
\* trendMinRising adjacent pairs with newer > older, and newest - oldest
\* strictly greater than trendMinIncrease.
C9_TrendIff ==
    [][\A w \in Workers : TrendChecked(w) =>
          LET sample == wtemps[w]
              n == Len(sample)
              steps == Cardinality({i \in 1..(n - 1) : sample[i] > sample[i + 1]})
              emitted == Events(eq', "TREND_ANOMALY") # Events(eq, "TREND_ANOMALY")
          IN  emitted <=> /\ n >= trendMinReadings
                          /\ steps >= trendMinRising
                          /\ sample[1] - sample[n] > trendMinIncrease]_vars

\* The sample [-3, -4, -6, -9] made checkTemperatureTrend publish a
\* TREND_ANOMALY event carrying -3.
C9_Witness ==
    /\ [i \in DOMAIN db |-> db[i].temperature] = <<-9, -6, -4, -3>>
    /\ windowStart = -MaxRows
    /\ \E i \in Events(eq, "TREND_ANOMALY") : parse(eq[i].body).telemetry.temp = -3

\* ------------------------------------------------- the consumer loops

WThrows(w) ==
    WParseThrows(w) \/ WPublishThrows(w) \/ WQueryThrows(w) \/ WTrendThrows(w)
EThrows(x) == EParseThrows(x) \/ EStoreThrows(x) \/ EStoreRefused(x)

Stores == <<redis, db, notes>>
Queues == <<tq, eq>>

\* Messages a step removes from a queue.
Removed(q, qNext) == {m \in DOMAIN q : q[m].state # "deleted" /\ qNext[m].state = "deleted"}

\* C2: in both consumer loops a message is put on processed[] only when its
\* own processing returned (no throw in that step), a message whose parse or
\* processing threw is not put on it, and the batch delete removes only the
\* messages on processed[].
C2_AckOnlyCompleted ==
    [][/\ \A w \in Workers :
            /\ WThrows(w) => wdone'[w] = wdone[w]
            /\ wdone'[w] \notin {wdone[w], <<>>} =>
                  /\ wpc[w] = "trend" /\ faults' = faults
                  /\ Parses(tq[WCurrent(w)].body)
                  /\ wdone'[w] = Append(wdone[w], WCurrent(w))
       /\ \A x \in Executors :
            /\ EThrows(x) => edone'[x] = edone[x]
            /\ edone'[x] \notin {edone[x], <<>>} =>
                  /\ Len(eops[x]) <= 1 /\ eops'[x] = <<>>
                  /\ Parses(eq[ECurrent(x)].body)
                  /\ edone'[x] = Append(edone[x], ECurrent(x))
       /\ \A m \in Removed(tq, tq') : \E w \in Workers : m \in Range(wdone[w])
       /\ \A m \in Removed(eq, eq') : \E x \in Executors : m \in Range(edone[x])]_vars

\* A Worker ended its for loop with one message of the batch on processed[]
\* and another, which threw, not on it.
C2_Witness ==
    \E w \in Workers :
        /\ wpc[w] = "item" /\ WLoopEnded(w)
        /\ Len(wbatch[w]) = 2 /\ Len(wdone[w]) = 1

\* C3: when a message of a batch throws, the loop goes on with the next
\* message of the same batch and keeps processed[] as it is; a message whose
\* processing returns is appended to processed[]; the batch delete removes
\* every message on processed[].
C3_Isolation ==
    [][/\ \A w \in Workers :
            /\ WThrows(w) =>
                  /\ wbatch'[w] = wbatch[w] /\ wdone'[w] = wdone[w]
                  /\ wi'[w] = wi[w] + 1 /\ wpc'[w] = "item"
            /\ WTrend(w) =>
                  /\ wbatch'[w] = wbatch[w] /\ wdone'[w] = Append(wdone[w], WCurrent(w))
                  /\ wi'[w] = wi[w] + 1 /\ wpc'[w] = "item"
            /\ WDelete(w) => Removed(tq, tq') = Range(wdone[w]) \ Deleted(tq)
       /\ \A x \in Executors :
            /\ EThrows(x) =>
                  /\ ebatch'[x] = ebatch[x] /\ edone'[x] = edone[x]
                  /\ ei'[x] = ei[x] + 1 /\ epc'[x] = "item"
            /\ EDelete(x) => Removed(eq, eq') = Range(edone[x]) \ Deleted(eq)]_vars

\* An Executor ended its for loop over a batch of two messages: the first
\* threw and is still in the queue, the second is on processed[].
C3_Witness ==
    \E x \in Executors :
        /\ epc[x] = "item" /\ ELoopEnded(x)
        /\ Len(ebatch[x]) = 2
        /\ edone[x] = <<ebatch[x][2]>>
        /\ eq[ebatch[x][1]].state # "deleted"

\* The TELEMETRY_PROCESSED events ever published for the reading r.
OrdinaryFor(r) ==
    {j \in Events(eq, "TELEMETRY_PROCESSED") : parse(eq[j].body).telemetry = r}

\* Readings whose message a Worker has acknowledged.
Acknowledged == {m \in Deleted(tq) : Parses(tq[m].body)}

\* C10 as claimed, its last clause: across the run exactly one ordinary event
\* exists per acknowledged reading.
C10_ExactlyOnePerReading ==
    \A m \in Acknowledged : Cardinality(OrdinaryFor(parse(tq[m].body))) = 1

\* The events a step adds to the EventsQueue.
Published(type) == Events(eq', type) \ Events(eq, type)

\* C10, amended: one processing of a reading publishes exactly one ordinary
\* event (before its trend check) and zero or one trend event (as the trend
\* check returns), and no other Worker step publishes; across the run at
\* least one ordinary event exists per acknowledged reading.
C10_EventsPerProcessing ==
    /\ [](\A m \in Acknowledged : Cardinality(OrdinaryFor(parse(tq[m].body))) >= 1)
    /\ [][\A w \in Workers :
            /\ WPublish(w) =>
                  /\ Cardinality(Published("TELEMETRY_PROCESSED")) = 1
                  /\ \A j \in Published("TELEMETRY_PROCESSED") :
                        parse(eq'[j].body).telemetry = parse(tq[WCurrent(w)].body)
                  /\ Published("TREND_ANOMALY") = {}
            /\ TrendChecked(w) =>
                  /\ Published("TELEMETRY_PROCESSED") = {}
                  /\ Cardinality(Published("TREND_ANOMALY")) <= 1
            /\ (WThrows(w) \/ WDelete(w) \/ WDeleteThrows(w) \/ WNothingToDelete(w)) =>
                  Len(eq') = Len(eq)]_vars

\* A reading was acknowledged after a processing that published its ordinary
\* event and a trend event.
C10_Witness ==
    /\ Acknowledged # {}
    /\ Events(eq, "TREND_ANOMALY") # {}
    /\ \A m \in Acknowledged : Cardinality(OrdinaryFor(parse(tq[m].body))) = 1

\* ------------------------------------------------------------- liveness

\* Message numbers of a run: one reading and at most MaxFaults redeliveries
\* or non-JSON messages.
TelemetryIds == 1..(1 + MaxFaults)
EventIds == 1..(2 + 2 * MaxFaults)

\* The steps a running Worker takes by itself once it has a batch.
WorkerContinues(w) ==
    \/ WBackoff(w)
    \/ WParseThrows(w)
    \/ WGet(w)
    \/ WPublish(w)
    \/ WQuery(w)
    \/ WTrend(w)
    \/ WDelete(w)
    \/ WNothingToDelete(w)

ExecutorContinues(x) ==
    \/ EBackoff(x)
    \/ EParseThrows(x)
    \/ EProcess(x)
    \/ EStore(x)
    \/ EStoreRefused(x)
    \/ ENotify(x)
    \/ EDelete(x)
    \/ ENothingToDelete(x)

\* The consumers keep running; a message that is visible again and again
\* while a consumer polls is delivered; the visibility timeout of a message
\* nobody works on elapses.
Fairness ==
    /\ \A w \in Workers : WF_vars(WorkerContinues(w))
    /\ \A x \in Executors : WF_vars(ExecutorContinues(x))
    /\ \A m \in TelemetryIds :
          /\ SF_vars(\E w \in Workers : \E S \in SUBSET Visible(tq) : m \in S /\ WReceive(w, S))
          /\ WF_vars(~HeldByWorker(m) /\ TelemetryTimeout(m))
    /\ \A m \in EventIds :
          /\ SF_vars(\E x \in Executors : \E S \in SUBSET Visible(eq) : m \in S /\ EReceive(x, S))
          /\ WF_vars(~HeldByExecutor(m) /\ EventTimeout(m))

\* One Worker and one Executor run; one sensor of ship_1 posts a reading.
InitFair ==
    /\ \E reading \in Readings : Setup({"w1"}, {"x1"}, <<reading>>, MaxFaults)
    /\ webhook = TRUE
    /\ redis = SeedRedis
    /\ setup = <<>>
    /\ db = SeedHistory
    /\ windowStart = -2
    /\ call = <<>>
    /\ ret = <<>>

SpecFair == InitFair /\ [][Next]_vars /\ Fairness

\* C5: a consumer whose receive call throws goes to the backoff wait with
\* both queues and all stores unchanged, leaves the wait only to poll again,
\* and does poll again; it does not stop.
C5_PollError ==
    /\ [][/\ \A w \in Workers :
              /\ (wpc[w] = "receive" /\ wpc'[w] \notin {"receive", "item"}) =>
                    wpc'[w] = "backoff" /\ Queues' = Queues /\ Stores' = Stores
              /\ (wpc[w] = "backoff" /\ wpc'[w] # "backoff") =>
                    wpc'[w] = "receive" /\ Queues' = Queues /\ Stores' = Stores
          /\ \A x \in Executors :
              /\ (epc[x] = "receive" /\ epc'[x] \notin {"receive", "item"}) =>
                    epc'[x] = "backoff" /\ Queues' = Queues /\ Stores' = Stores
              /\ (epc[x] = "backoff" /\ epc'[x] # "backoff") =>
                    epc'[x] = "receive" /\ Queues' = Queues /\ Stores' = Stores]_vars
    /\ \A w \in Workers : (wpc[w] = "backoff") ~> (wpc[w] = "receive")
    /\ \A x \in Executors : (epc[x] = "backoff") ~> (epc[x] = "receive")

\* A Worker waits in backoff although no message was ever sent to its queue:
\* its receive call threw.
C5_Witness ==
    \E w \in Workers : wpc[w] = "backoff" /\ tq = <<>>

\* A message that was received, that no consumer still has in its batch and
\* that was not deleted.
WithheldTelemetry(m) == m \in InFlight(tq) /\ ~HeldByWorker(m)
WithheldEvent(m) == m \in InFlight(eq) /\ ~HeldByExecutor(m)

\* The rows of telemetry_readings written for the reading of message m.
Recorded(m) ==
    {i \in DOMAIN db : /\ db[i].table = "telemetry_readings"
                       /\ db[i].ship_id = parse(tq[m].body).ship_id
                       /\ db[i].timestamp = parse(tq[m].body).timestamp}

\* C1 as claimed: every reading that reached the TelemetryQueue is eventually
\* stored as at least one row of telemetry_readings, whatever failures happen
\* before they stop.
C1_AtLeastOnce ==
    \A m \in TelemetryIds : (m \in Accepted) ~> (m \in Accepted /\ Recorded(m) # {})

\* The reading with four integer digits was accepted, evaluated and published;
\* the Executor received its event, withheld it and holds it no more; no row
\* was written.
C1_Witness ==
    \E m \in Accepted :
        /\ ~FitsDecimal(parse(tq[m].body).temp)
        /\ \E j \in DOMAIN eq : Parses(eq[j].body) /\ WithheldEvent(j)
        /\ Recorded(m) = {}

\* What holds instead: a reading whose temp fits the temperature column is
\* eventually stored, and may be stored more than once.
StorableAtLeastOnce ==
    \A m \in TelemetryIds :
        (m \in Accepted /\ FitsDecimal(parse(tq[m].body).temp))
            ~> (m \in Accepted /\ Recorded(m) # {})

StoredTwice == \E m \in Accepted : Cardinality(Recorded(m)) >= 2

\* The messages of its batch a consumer does not acknowledge.
WorkerWithholds(w) == Range(wbatch[w]) \ Range(wdone[w])
ExecutorWithholds(x) == Range(ebatch[x]) \ Range(edone[x])

\* C4: a message left out of the batch delete is not deleted by the end of
\* that loop iteration; while no consumer has it, it stays in the queue and
\* the only thing that happens to it is that its visibility timeout elapses;
\* and it is received again.
C4_Redelivery ==
    /\ [][/\ \A w \in Workers : wbatch'[w] = <<>> =>
                \A m \in WorkerWithholds(w) : tq'[m].state = tq[m].state
          /\ \A x \in Executors : ebatch'[x] = <<>> =>
                \A m \in ExecutorWithholds(x) : eq'[m].state = eq[m].state
          /\ \A m \in DOMAIN tq : WithheldTelemetry(m) =>
                tq'[m].state \in {"inflight", "visible"}
          /\ \A m \in DOMAIN eq : WithheldEvent(m) =>
                eq'[m].state \in {"inflight", "visible"}]_vars
    /\ \A m \in TelemetryIds : (m \in DOMAIN tq /\ WithheldTelemetry(m)) ~> HeldByWorker(m)
    /\ \A m \in EventIds : (m \in DOMAIN eq /\ WithheldEvent(m)) ~> HeldByExecutor(m)

\* The only event of a reading is at the head of an Executor's batch again:
\* an earlier processing of it wrote the telemetry row and threw in storeAlert
\* (no alert row exists), so it was left out of the batch delete.
C4_Witness ==
    \E x \in Executors : \E m \in Accepted :
        /\ epc[x] = "item" /\ ~ELoopEnded(x)
        /\ OrdinaryFor(parse(tq[m].body)) = {ECurrent(x)}
        /\ Events(eq, "TREND_ANOMALY") = {}
        /\ Recorded(m) # {}
        /\ \A i \in DOMAIN db : db[i].table # "alerts"

\* A reading of Worker w's batch whose processTelemetry threw: the for loop is
\* past it and it is not on processed[].
FailedReading(w, m) ==
    /\ \E i \in 1..Len(wbatch[w]) : wbatch[w][i] = m /\ i < wi[w]
    /\ Parses(tq[m].body)
    /\ m \notin Range(wdone[w])

\* Worker w is at message m in its for loop.
WorkerAt(w, m) == wpc[w] = "item" /\ ~WLoopEnded(w) /\ WCurrent(w) = m

\* C11: when getThresholds or the trend query throws, the reading is not put
\* on processed[] and neither queue changes in that step; when the trend query
\* throws, the ordinary event published before it is still in the EventsQueue;
\* the batch delete leaves the failed reading in the TelemetryQueue; and the
\* failed reading is delivered to a Worker again.
C11_LookupFailure ==
    /\ [][\A w \in Workers :
            /\ (WPublishThrows(w) \/ WQueryThrows(w)) =>
                  /\ wdone'[w] = wdone[w]
                  /\ WCurrent(w) \notin Range(wdone'[w])
                  /\ Queues' = Queues
                  /\ wbatch'[w] = wbatch[w] /\ wi'[w] = wi[w] + 1
            /\ WQueryThrows(w) =>
                  \E j \in Events(eq', "TELEMETRY_PROCESSED") :
                      /\ parse(eq'[j].body).telemetry = parse(tq[WCurrent(w)].body)
                      /\ tq'[WCurrent(w)].state # "deleted"
            /\ \A m \in DOMAIN tq :
                  (FailedReading(w, m) /\ wbatch'[w] = <<>>) => tq'[m].state = tq[m].state]_vars
    /\ \A m \in TelemetryIds :
          (m \in DOMAIN tq /\ \E w \in Workers : FailedReading(w, m))
              ~> (\E w \in Workers : WorkerAt(w, m))

\* A reading's trend query threw after its ordinary event was published: the
\* for loop is past the reading, which is on no processed[] and still in
\* flight; its ordinary event is in the EventsQueue; nothing was recorded for
\* it, so the trend test could not have published.
C11_Witness ==
    \E w \in Workers : \E m \in Accepted :
        /\ FailedReading(w, m)
        /\ tq[m].state = "inflight"
        /\ OrdinaryFor(parse(tq[m].body)) # {}
        /\ Events(eq, "TREND_ANOMALY") = {}
        /\ Recorded(m) = {}
        /\ faults = 0

\* Every awaited call processEvent makes for the event e has had its effect:
\* the row of each store call is in its table, each sendNotification call
\* reached fetch.
Effected(e) ==
    \A c \in Range(processEvent(e.evaluation.actions)) :
        IF c.fn = "storeTelemetry" THEN TelemetryRow(e.telemetry) \in Range(db)
        ELSE IF c.fn = "storeAlert"
             THEN AlertRow(e.telemetry, e.evaluation, c.action) \in Range(db)
        ELSE IF c.fn = "storeTemperatureAction"
             THEN ActionRow(e.telemetry, e.evaluation.thresholds.target) \in Range(db)
        ELSE \E d \in BOOLEAN : Notification(e.telemetry, e.evaluation, d) \in Range(notes)

\* The rows of the alerts table with the given alert_type.
Alerts(type) == {i \in DOMAIN db : db[i].table = "alerts" /\ db[i].alert_type = type}

\* C12: an event is on an Executor's processed[], or deleted from the
\* EventsQueue, only when every store call of its action list inserted its row
\* and every notification was attempted; a step in which an awaited store call
\* ends without its row being inserted leaves processed[] and the EventsQueue
\* as they are, and the batch delete of that iteration leaves the event in the
\* queue.
C12_AckAfterAllActions ==
    /\ [](/\ \A x \in Executors : \A j \in Range(edone[x]) : Effected(parse(eq[j].body))
          /\ \A j \in Deleted(eq) : Parses(eq[j].body) /\ Effected(parse(eq[j].body)))
    /\ [][\A x \in Executors :
            /\ ( /\ epc[x] = "event"
                 /\ Head(eops[x]).fn # "sendNotification"
                 /\ eops'[x] # eops[x]
                 /\ db' = db ) =>
                    /\ edone'[x] = edone[x]
                    /\ ECurrent(x) \notin Range(edone'[x])
                    /\ eq' = eq
            /\ ebatch'[x] = <<>> =>
                  \A j \in ExecutorWithholds(x) : eq'[j].state = eq[j].state]_vars

\* The one ordinary event of a WARNING reading is deleted; the reading was
\* recorded twice and alerted once: the first processing of the event threw in
\* storeAlert and was not acknowledged, the second completed.
C12_Witness ==
    \E m \in Accepted :
        /\ Cardinality(OrdinaryFor(parse(tq[m].body))) = 1
        /\ OrdinaryFor(parse(tq[m].body)) \subseteq Deleted(eq)
        /\ Cardinality(Recorded(m)) = 2
        /\ Cardinality(Alerts(WARNING)) = 1
        /\ notes # <<>>

\* A step in which a webhook call failed.
WebhookFailed == Len(notes') = Len(notes) + 1 /\ ~notes'[Len(notes')].delivered

\* C13: in a step in which the webhook call of sendNotification fails, some
\* Executor is in processEvent at that call, the alert row stored before the
\* call is and stays in the alerts table, no row is lost, and processEvent
\* goes on: to its next awaited call if there is one, and otherwise it returns
\* and the event is put on processed[].
C13_NotificationSwallowed ==
    [][WebhookFailed =>
          \E x \in Executors :
              /\ epc[x] = "event" /\ Head(eops[x]).fn = "sendNotification"
              /\ db' = db
              /\ \E i \in DOMAIN db' :
                    /\ db'[i].table = "alerts"
                    /\ db'[i].ship_id = EEvent(x).telemetry.ship_id
                    /\ db'[i].alert_type = EEvent(x).evaluation.alert_type
                    /\ db'[i].action_taken \in {NOTIFY_WARNING, NOTIFY_CRITICAL}
              /\ IF Tail(eops[x]) = <<>>
                 THEN /\ edone'[x] = Append(edone[x], ECurrent(x))
                      /\ epc'[x] = "item" /\ ei'[x] = ei[x] + 1
                 ELSE /\ eops'[x] = Tail(eops[x])
                      /\ epc'[x] = "event" /\ edone'[x] = edone[x]]_vars

\* The webhook call for a WARNING event failed; the event was acknowledged
\* all the same and its alert row is in the alerts table.
C13_Witness ==
    /\ \E i \in DOMAIN notes : ~notes[i].delivered
    /\ Cardinality(Alerts(WARNING)) = 1
    /\ Events(eq, "TELEMETRY_PROCESSED") # {}
    /\ Events(eq, "TELEMETRY_PROCESSED") \subseteq Deleted(eq)

\* ------------------------------------- one reading through the whole pipeline

\* One Worker and one Executor run; a sensor of ship_1 posts one reading, -1,
\* -19 or -8; the thresholds of ship_1 are -10, -5 and -18, stored by
\* cache-setup or, with ship_1 not in the seed, by default; cache-setup has
\* finished, or it runs on the seed file meanwhile;
\* the webhook is configured or not; nothing fails.
InitE2E ==
    /\ \E reading \in {Hot("ship_1"), Cold("ship_1"), Warm("ship_1")} :
          Setup({"w1"}, {"x1"}, <<reading>>, 0)
    /\ webhook \in BOOLEAN
    /\ redis \in {SeedRedis, UnseededRedis}
    /\ setup \in {<<>>, ClientSets(ShipThresholds)}
    /\ db = SeedHistory
    /\ windowStart = -2
    /\ call = <<>>
    /\ ret = <<>>

NextE2E ==
    \/ PostTelemetry
    \/ TimePasses
    \/ \E S \in SUBSET Visible(tq) : WReceive("w1", S)
    \/ WReceiveNothing("w1")
    \/ WGet("w1")
    \/ WPublish("w1")
    \/ WQuery("w1")
    \/ WTrend("w1")
    \/ WDelete("w1")
    \/ \E S \in SUBSET Visible(eq) : EReceive("x1", S)
    \/ EReceiveNothing("x1")
    \/ EProcess("x1")
    \/ EStore("x1")
    \/ ENotify("x1")
    \/ EDelete("x1")
    \/ CacheSet

SpecE2E == InitE2E /\ [][NextE2E]_vars

\* The ordinary events of readings with the given temp, and those of them the
\* Executor has handled and acknowledged.
OrdinaryOf(temp) ==
    {j \in Events(eq, "TELEMETRY_PROCESSED") : parse(eq[j].body).telemetry.temp = temp}
Dispatched(temp) == OrdinaryOf(temp) \cap Deleted(eq)

\* The rows of a table.
Rows(table) == {i \in DOMAIN db : db[i].table = table}

\* The rows of telemetry_readings written by the pipeline for a temp.
HistoryOf(temp) ==
    {i \in Rows("telemetry_readings") : i > Len(SeedHistory) /\ db[i].temperature = temp}

\* C14 as claimed: the reading -1 of ship_1 is classified CRITICAL with the
\* actions [LOG, ADJUST_TEMPERATURE, NOTIFY_CRITICAL], and once its ordinary
\* event is handled there is exactly one telemetry row, exactly one alert row
\* of type CRITICAL, exactly one temperature action, PENDING, and exactly one
\* webhook call.
C14_OneAlertRow ==
    /\ \A j \in OrdinaryOf(-1) :
          /\ parse(eq[j].body).evaluation.alert_type = CRITICAL
          /\ parse(eq[j].body).evaluation.actions = <<LOG, ADJUST_TEMPERATURE, NOTIFY_CRITICAL>>
    /\ Dispatched(-1) # {} =>
          /\ Cardinality(HistoryOf(-1)) = 1
          /\ Cardinality(Alerts(CRITICAL)) = 1
          /\ Cardinality(Rows("temperature_actions")) = 1
          /\ \A i \in Rows("temperature_actions") : db[i].status = "PENDING"
          /\ Len(notes) = 1

\* C14, amended: the reading -1 of ship_1 is classified CRITICAL with the
\* actions [LOG, ADJUST_TEMPERATURE, NOTIFY_CRITICAL], and once its ordinary
\* event is handled there is exactly one telemetry row, exactly two alert rows
\* of type CRITICAL (one for ADJUST_TEMPERATURE, then one for
\* NOTIFY_CRITICAL), exactly one temperature action, PENDING, with target -18,
\* and one webhook call if the webhook is configured, none if it is not.
C14_CriticalEndToEnd ==
    /\ \A j \in OrdinaryOf(-1) :
          /\ parse(eq[j].body).evaluation.alert_type = CRITICAL
          /\ parse(eq[j].body).evaluation.actions = <<LOG, ADJUST_TEMPERATURE, NOTIFY_CRITICAL>>
    /\ Dispatched(-1) # {} =>
          /\ Cardinality(HistoryOf(-1)) = 1
          /\ Cardinality(Alerts(CRITICAL)) = 2
          /\ \E i, k \in Alerts(CRITICAL) :
                /\ i < k
                /\ db[i].action_taken = ADJUST_TEMPERATURE
                /\ db[k].action_taken = NOTIFY_CRITICAL
          /\ Cardinality(Rows("temperature_actions")) = 1
          /\ \A i \in Rows("temperature_actions") :
                db[i].status = "PENDING" /\ db[i].current_temp = -1 /\ db[i].target_temp = -18
          /\ Len(notes) = IF webhook THEN 1 ELSE 0
          /\ \A i \in DOMAIN notes : notes[i].alert_type = CRITICAL

\* The ordinary event of the reading -1 was handled with the webhook
\* configured: two CRITICAL alert rows, one temperature action and one
\* delivered webhook call exist.
C14_Witness ==
    /\ webhook
    /\ Dispatched(-1) # {}
    /\ Cardinality(Alerts(CRITICAL)) = 2
    /\ Cardinality(Rows("temperature_actions")) = 1
    /\ Len(notes) = 1 /\ notes[1].delivered

\* An Executor is handling an event of type NORMAL.
HandlingNormal(x) ==
    /\ epc[x] \in {"item", "event"} /\ ~ELoopEnded(x)
    /\ Parses(eq[ECurrent(x)].body)
    /\ EEvent(x).evaluation.alert_type = NORMAL

\* C15: the reading -19 is classified NORMAL with the actions [LOG]; at all
\* times it has no alert row, no temperature action and no webhook call, and
\* at most one telemetry row, and exactly one once its ordinary event is
\* handled; a step of an Executor handling a NORMAL event changes no store
\* except by appending the event's row to telemetry_readings.
C15_NormalEndToEnd ==
    /\ [](/\ \A j \in OrdinaryOf(-19) :
                /\ parse(eq[j].body).evaluation.alert_type = NORMAL
                /\ parse(eq[j].body).evaluation.actions = <<LOG>>
          /\ OrdinaryOf(-19) # {} =>
                /\ Rows("alerts") = {} /\ Rows("temperature_actions") = {} /\ notes = <<>>
                /\ Cardinality(HistoryOf(-19)) <= 1
          /\ Dispatched(-19) # {} => Cardinality(HistoryOf(-19)) = 1)
    /\ [][\A x \in Executors : HandlingNormal(x) =>
            /\ notes' = notes
            /\ <<epc[x], eops[x], ei[x]>>' # <<epc[x], eops[x], ei[x]>> => redis' = redis
            /\ db' \in {db, Append(db, TelemetryRow(EEvent(x).telemetry))}]_vars

\* The ordinary event of the reading -19 was handled: one telemetry row was
\* written for it.
C15_Witness ==
    /\ Dispatched(-19) # {}
    /\ Cardinality(HistoryOf(-19)) = 1
    /\ Len(db) = Len(SeedHistory) + 1

\* The rows of telemetry_readings equal to the row of a reading.
Copies(telemetry) == {i \in DOMAIN db : db[i] = TelemetryRow(telemetry)}

\* Executor x is at the storeTelemetry call of an event whose reading the
\* table already holds, and the call returns.
StoresAgain(x) ==
    /\ epc[x] = "event"
    /\ Head(eops[x]).fn = "storeTelemetry"
    /\ Copies(EEvent(x).telemetry) # {}
    /\ Insertable(TelemetryRow(EEvent(x).telemetry))
    /\ eops'[x] # eops[x]
    /\ faults' = faults

\* C16: storing a reading the table already holds appends one more copy of
\* its row and processEvent goes on as the first time; a Worker that
\* processes a reading whose ordinary event was already published publishes
\* it again and goes on to the trend check; when two Executors have both
\* handled the same ordinary event to the end, both have it on processed[]
\* and the table holds two copies of the row; no consumer ever leaves its
\* loop.
C16_Duplicates ==
    /\ [](/\ \A w \in Workers : wpc[w] \in {"receive", "backoff", "item", "query", "trend"}
          /\ \A x \in Executors : epc[x] \in {"receive", "backoff", "item", "event"}
          /\ \A j \in Events(eq, "TELEMETRY_PROCESSED") :
                (\A x \in Executors : j \in Range(edone[x])) =>
                    Cardinality(Copies(parse(eq[j].body).telemetry)) >= 2)
    /\ [][/\ \A x \in Executors : StoresAgain(x) =>
                /\ db' = Append(db, TelemetryRow(EEvent(x).telemetry))
                /\ Cardinality(Copies(EEvent(x).telemetry)') =
                      Cardinality(Copies(EEvent(x).telemetry)) + 1
                /\ IF Tail(eops[x]) = <<>>
                   THEN edone'[x] = Append(edone[x], ECurrent(x)) /\ epc'[x] = "item"
                   ELSE eops'[x] = Tail(eops[x]) /\ epc'[x] = "event"
          /\ \A w \in Workers :
                ( /\ wpc[w] = "item" /\ ~WLoopEnded(w)
                  /\ Parses(tq[WCurrent(w)].body)
                  /\ OrdinaryFor(parse(tq[WCurrent(w)].body)) # {}
                  /\ wpc'[w] # wpc[w] /\ faults' = faults ) =>
                    /\ wpc'[w] = "query"
                    /\ Cardinality(OrdinaryFor(parse(tq[WCurrent(w)].body))') =
                          Cardinality(OrdinaryFor(parse(tq[WCurrent(w)].body))) + 1]_vars

\* The ordinary event of a reading was delivered to both Executors; both
\* handled it to the end and have it on processed[]; the table holds two
\* copies of the reading's row.
C16_Witness ==
    \E j \in Events(eq, "TELEMETRY_PROCESSED") :
        /\ \A x \in Executors : j \in Range(edone[x])
        /\ Cardinality(Copies(parse(eq[j].body).telemetry)) = 2

\* Messages whose body is not JSON.
Malformed(q) == {m \in DOMAIN q : ~Parses(q[m].body)}

\* Executor x is at message j in its for loop.
ExecutorAt(x, j) == epc[x] = "item" /\ ~ELoopEnded(x) /\ ECurrent(x) = j

WorkerLocals == <<wpc, wbatch, wdone, wi, wtemps, wreads>>
ExecutorLocals == <<epc, ebatch, edone, eops, ei>>

\* The bodies of a queue's messages, in arrival order.
Bodies(q) == [i \in DOMAIN q |-> q[i].body]

\* Queue q after messages were sent to it: what it held is as it was.
Extends(qNext, q) == Len(qNext) >= Len(q) /\ SubSeq(qNext, 1, Len(q)) = q

\* The messages of a queue a step received, and those it changed otherwise
\* than by receiving or deleting them.
Taken(q, qNext) == {m \in DOMAIN q : q[m].state = "visible" /\ qNext[m].state = "inflight"}
Touched(q, qNext) == {m \in DOMAIN q : qNext[m] # q[m]} \ (Taken(q, qNext) \cup Removed(q, qNext))

\* C18: a step of a Worker changes no store and no Executor; on the
\* EventsQueue it only sends messages, on the TelemetryQueue it only receives
\* or deletes messages.  A step of the ingestor only sends one message to the
\* TelemetryQueue.  A step of an Executor changes no Worker, not the
\* TelemetryQueue and not Redis; on the EventsQueue it only receives or
\* deletes messages.
C18_Frame ==
    [][/\ WorkerLocals' # WorkerLocals =>
            /\ Stores' = Stores
            /\ ExecutorLocals' = ExecutorLocals
            /\ Extends(eq', eq)
            /\ Len(tq') = Len(tq) /\ Touched(tq, tq') = {}
       /\ sensors' # sensors =>
            /\ Stores' = Stores /\ eq' = eq
            /\ WorkerLocals' = WorkerLocals /\ ExecutorLocals' = ExecutorLocals
            /\ Extends(tq', tq) /\ Len(tq') = Len(tq) + 1
       /\ ExecutorLocals' # ExecutorLocals =>
            /\ tq' = tq /\ redis' = redis
            /\ WorkerLocals' = WorkerLocals
            /\ Len(eq') = Len(eq) /\ Touched(eq, eq') = {}]_vars

\* A reading went through the three stages: its message and its ordinary
\* event are deleted from their queues, its row is in telemetry_readings, and
\* a trend event was published as well.
C18_Witness ==
    \E m \in Acknowledged :
        /\ OrdinaryFor(parse(tq[m].body)) \cap Deleted(eq) # {}
        /\ Recorded(m) # {}
        /\ Events(eq, "TREND_ANOMALY") # {}

\* The consumers that have message m in their batch.
WorkersHolding(m) == {w \in Workers : m \in Range(wbatch[w])}
ExecutorsHolding(j) == {x \in Executors : j \in Range(ebatch[x])}

\* C19: no message is in the batch of two consumers at once, and no message
\* is processed more than once: a reading has at most one ordinary event and
\* an ordinary event at most one row in telemetry_readings.
C19_ProcessedOnce ==
    /\ \A m \in DOMAIN tq : Cardinality(WorkersHolding(m)) <= 1
    /\ \A j \in DOMAIN eq : Cardinality(ExecutorsHolding(j)) <= 1
    /\ \A m \in Accepted : Cardinality(OrdinaryFor(parse(tq[m].body))) <= 1
    /\ \A j \in Events(eq, "TELEMETRY_PROCESSED") :
          Cardinality(Copies(parse(eq[j].body).telemetry)) <= 1

\* C20: every step leaves the rows the tables hold as they are, in place and
\* unchanged, and only adds rows after them; no table ever has fewer rows than
\* before.
C20_AppendOnly ==
    [][/\ Extends(db', db)
       /\ \A t \in {"telemetry_readings", "alerts", "temperature_actions"} :
             {db[i] : i \in Rows(t)} \subseteq {db'[i] : i \in Rows(t)'}
       /\ \A t \in {"telemetry_readings", "alerts", "temperature_actions"} :
             Cardinality(Rows(t)') >= Cardinality(Rows(t))]_vars

\* Both Executors are inside processEvent at once, after the pipeline wrote a
\* telemetry row and two different alert rows.
C20_Witness ==
    /\ \A x \in Executors : epc[x] = "event"
    /\ Len(db) > Len(SeedHistory)
    /\ Cardinality({db[i] : i \in Rows("alerts")}) >= 2

\* An Executor is handling a trend event.
HandlingTrend(x) ==
    /\ epc[x] \in {"item", "event"} /\ ~ELoopEnded(x)
    /\ Parses(eq[ECurrent(x)].body)
    /\ EEvent(x).event_type = "TREND_ANOMALY"

\* C21 as claimed, the clause on the threshold: the alert row of a trend event
\* carries no threshold.
C21_NoThreshold ==
    \A i \in Alerts(TREND_ANOMALY) : "threshold" \notin DOMAIN db[i]

\* C21, amended: handling a trend event inserts exactly one alert row, of type
\* TREND_ANOMALY, with action_taken TREND_ALERT, the temperature and message
\* of the event and the threshold 0; it inserts no other row and makes no
\* webhook call.
C21_TrendDispatch ==
    /\ [](/\ Events(eq, "TREND_ANOMALY") = {} => Alerts(TREND_ANOMALY) = {}
          /\ \A j \in Events(eq, "TREND_ANOMALY") :
                /\ Cardinality(Alerts(TREND_ANOMALY)) <= 1
                /\ j \in Deleted(eq) => Cardinality(Alerts(TREND_ANOMALY)) = 1
                /\ \A i \in Alerts(TREND_ANOMALY) :
                      /\ db[i].threshold = 0
                      /\ db[i].action_taken = TREND_ALERT
                      /\ db[i].ship_id = parse(eq[j].body).telemetry.ship_id
                      /\ db[i].temperature = parse(eq[j].body).telemetry.temp
                      /\ db[i].message = parse(eq[j].body).evaluation.message)
    /\ [][\A x \in Executors : HandlingTrend(x) =>
            /\ notes' = notes
            /\ db' \in {db, Append(db, AlertRow(EEvent(x).telemetry, EEvent(x).evaluation,
                                                 TREND_ALERT))}]_vars

\* The trend event that followed the reading -1 was handled: the alerts table
\* holds its row, with threshold 0, after the two CRITICAL rows.
C21_Witness ==
    /\ Events(eq, "TREND_ANOMALY") # {}
    /\ Events(eq, "TREND_ANOMALY") \subseteq Deleted(eq)
    /\ Cardinality(Alerts(CRITICAL)) = 2
    /\ \E i \in Alerts(TREND_ANOMALY) : db[i].threshold = 0 /\ db[i].temperature = -1

\* The rows the pipeline has written, in insertion order, without the rows
\* of trend events.
IsOrdinaryRow(r) == ~(r.table = "alerts" /\ r.alert_type = TREND_ANOMALY)
Written == SelectSeq(SubSeq(db, Len(SeedHistory) + 1, Len(db)), IsOrdinaryRow)

\* The rows of an ordinary event, action by action in the order of its list.
RowsInListOrder(e) ==
    LET t == e.telemetry
        v == e.evaluation
    IN  IF v.alert_type = CRITICAL
        THEN <<TelemetryRow(t), AlertRow(t, v, ADJUST_TEMPERATURE),
               ActionRow(t, v.thresholds.target), AlertRow(t, v, NOTIFY_CRITICAL)>>
        ELSE IF v.alert_type = WARNING
        THEN <<TelemetryRow(t), AlertRow(t, v, NOTIFY_WARNING)>>
        ELSE <<TelemetryRow(t)>>

\* C22: the rows written for an event are at all times the first rows of its
\* list-order sequence (for a CRITICAL event: the telemetry row, then the
\* alert and the temperature action of ADJUST_TEMPERATURE, then the alert of
\* NOTIFY_CRITICAL); the webhook call is made only after all of them; the
\* event is acknowledged only with all of them written; and each step makes
\* at most one insert or webhook call.
C22_ListOrder ==
    /\ [](/\ Events(eq, "TELEMETRY_PROCESSED") = {} => Written = <<>>
          /\ \A j \in Events(eq, "TELEMETRY_PROCESSED") :
                LET expected == RowsInListOrder(parse(eq[j].body))
                IN  /\ Len(Written) <= Len(expected)
                    /\ Written = SubSeq(expected, 1, Len(Written))
                    /\ notes # <<>> => Written = expected
                    /\ j \in Deleted(eq) => Written = expected)
    /\ [][Len(db') + Len(notes') <= Len(db) + Len(notes) + 1]_vars

\* The Executor is inside processEvent for the CRITICAL event: the telemetry
\* row and the two rows of ADJUST_TEMPERATURE are written, the alert of
\* NOTIFY_CRITICAL and the webhook call are still to come.
C22_Witness ==
    /\ epc["x1"] = "event"
    /\ Len(Written) = 3
    /\ Written[3].table = "temperature_actions"
    /\ Alerts(CRITICAL) # {}
    /\ notes = <<>>

\* C23: a step that deletes messages from a queue is the step of one consumer
\* whose for loop is past the last message of its batch, it deletes every
\* message on that consumer's processed[] at once, and it ends the loop
\* iteration; a consumer whose for loop ended with processed[] empty goes to
\* the next poll without a call: no queue changes and nothing can fail.
C23_BatchAck ==
    [][/\ Removed(tq, tq') # {} =>
            \E w \in Workers :
                /\ wpc[w] = "item" /\ WLoopEnded(w)
                /\ Removed(tq, tq') = Range(wdone[w]) \ Deleted(tq)
                /\ wbatch'[w] = <<>> /\ wdone'[w] = <<>> /\ wpc'[w] = "receive"
       /\ Removed(eq, eq') # {} =>
            \E x \in Executors :
                /\ epc[x] = "item" /\ ELoopEnded(x)
                /\ Removed(eq, eq') = Range(edone[x]) \ Deleted(eq)
                /\ ebatch'[x] = <<>> /\ edone'[x] = <<>> /\ epc'[x] = "receive"
       /\ \A w \in Workers :
            (wpc[w] = "item" /\ WLoopEnded(w) /\ wdone[w] = <<>> /\ wbatch'[w] # wbatch[w]) =>
                Queues' = Queues /\ faults' = faults /\ wpc'[w] = "receive"
       /\ \A x \in Executors :
            (epc[x] = "item" /\ ELoopEnded(x) /\ edone[x] = <<>> /\ ebatch'[x] # ebatch[x]) =>
                Queues' = Queues /\ faults' = faults /\ epc'[x] = "receive"]_vars

\* A Worker received a batch of two messages and put the first on processed[]:
\* its for loop is at the second, and the first is still in flight.
C23_Witness ==
    \E w \in Workers :
        /\ wpc[w] = "item" /\ Len(wbatch[w]) = 2 /\ wi[w] = 2
        /\ wdone[w] = <<wbatch[w][1]>>
        /\ tq[wbatch[w][1]].state = "inflight"

\* C24: a consumer that polls a queue with no visible message stays at its
\* poll with its batch and processed[] empty unless the receive call itself
\* fails; a consumer reaches the backoff wait from a poll only by a failed
\* call, and the for loop only with a batch that is not empty; a consumer at
\* its poll has nothing to acknowledge.
C24_EmptyPoll ==
    /\ [](/\ \A w \in Workers : wpc[w] = "receive" => wbatch[w] = <<>> /\ wdone[w] = <<>>
          /\ \A x \in Executors : epc[x] = "receive" => ebatch[x] = <<>> /\ edone[x] = <<>>)
    /\ [][/\ \A w \in Workers :
                /\ (wpc[w] = "receive" /\ Visible(tq) = {} /\ faults' = faults) =>
                      /\ wpc'[w] = "receive"
                      /\ wbatch'[w] = <<>> /\ wdone'[w] = <<>>
                /\ (wpc[w] = "receive" /\ wpc'[w] = "backoff") => faults' = faults - 1
                /\ (wpc[w] = "receive" /\ wpc'[w] = "item") =>
                      wbatch'[w] # <<>> /\ Range(wbatch'[w]) \subseteq Visible(tq)
          /\ \A x \in Executors :
                /\ (epc[x] = "receive" /\ Visible(eq) = {} /\ faults' = faults) =>
                      /\ epc'[x] = "receive"
                      /\ ebatch'[x] = <<>> /\ edone'[x] = <<>>
                /\ (epc[x] = "receive" /\ epc'[x] = "backoff") => faults' = faults - 1
                /\ (epc[x] = "receive" /\ epc'[x] = "item") =>
                      ebatch'[x] # <<>> /\ Range(ebatch'[x]) \subseteq Visible(eq)]_vars

\* A Worker polls while the only message of the TelemetryQueue is in flight
\* with the other Worker: its poll comes back empty; nothing has failed.
C24_Witness ==
    \E w \in Workers :
        /\ wpc[w] = "receive"
        /\ tq # <<>> /\ Visible(tq) = {} /\ InFlight(tq) # {}
        /\ \E v \in Workers \ {w} : wbatch[v] # <<>>
        /\ faults = MaxFaults

\* The temperature of the row of the ship with the latest timestamp inside
\* the window.
NewestStored(shipId) ==
    LET newest == CHOOSE i \in TrendCandidates(shipId) :
                      \A k \in TrendCandidates(shipId) : db[k].timestamp <= db[i].timestamp
    IN  db[newest].temperature

\* C26: every trend event in the EventsQueue has alert type TREND_ANOMALY
\* and the action list [TREND_ALERT]; a trend event is published only as a
\* trend check returns, at most one per check, for the ship of the reading
\* and with the newest stored temperature of its window as temp.
C26_TrendEvent ==
    /\ [](\A j \in Events(eq, "TREND_ANOMALY") :
            /\ parse(eq[j].body).evaluation.alert_type = TREND_ANOMALY
            /\ parse(eq[j].body).evaluation.actions = <<TREND_ALERT>>)
    /\ [][/\ Published("TREND_ANOMALY") # {} => \E w \in Workers : TrendChecked(w)
          /\ \A w \in Workers : TrendChecked(w) =>
                /\ Cardinality(Published("TREND_ANOMALY")) <= 1
                /\ Len(eq') <= Len(eq) + 1
                /\ \A j \in Published("TREND_ANOMALY") :
                      /\ parse(eq'[j].body).telemetry.ship_id = WShip(w)
                      /\ parse(eq'[j].body).telemetry.temp = NewestStored(WShip(w))]_vars

\* A trend event was published from a history whose newest row was inserted
\* first and is warmer than its oldest row.
C26_Witness ==
    /\ Len(db) = MaxRows
    /\ db[1].timestamp = 0
    /\ db[1].temperature > db[MaxRows].temperature
    /\ \E j \in Events(eq, "TREND_ANOMALY") :
          parse(eq[j].body).telemetry.temp = db[1].temperature

\* The alert rows written for an action.
AlertsFor(action) == {i \in Rows("alerts") : db[i].action_taken = action}

\* C27: every temperature action follows an alert row of ADJUST_TEMPERATURE
\* of the same event, and is PENDING with the event's temp as current_temp
\* and the event's target threshold as target_temp; every CRITICAL alert row
\* is one of ADJUST_TEMPERATURE or NOTIFY_CRITICAL and carries the event's
\* critical threshold; a handled CRITICAL event has one row of each, the
\* ADJUST_TEMPERATURE alert directly before the temperature action.
C27_AdjustTemperature ==
    /\ \A i \in Rows("temperature_actions") :
          /\ i > 1 /\ i - 1 \in AlertsFor(ADJUST_TEMPERATURE)
          /\ db[i - 1].ship_id = db[i].ship_id /\ db[i - 1].temperature = db[i].current_temp
          /\ db[i].action_type = ADJUST_TEMPERATURE /\ db[i].status = "PENDING"
          /\ \E j \in Events(eq, "TELEMETRY_PROCESSED") :
                /\ parse(eq[j].body).evaluation.alert_type = CRITICAL
                /\ db[i].ship_id = parse(eq[j].body).telemetry.ship_id
                /\ db[i].current_temp = parse(eq[j].body).telemetry.temp
                /\ db[i].target_temp = parse(eq[j].body).evaluation.thresholds.target
    /\ \A i \in Alerts(CRITICAL) :
          /\ db[i].action_taken \in {ADJUST_TEMPERATURE, NOTIFY_CRITICAL}
          /\ \E j \in Events(eq, "TELEMETRY_PROCESSED") :
                /\ db[i].temperature = parse(eq[j].body).telemetry.temp
                /\ db[i].threshold = parse(eq[j].body).evaluation.thresholds.critical
                /\ db[i].threshold = getThresholds(Replies("ship_1")).critical
    /\ AlertsFor(ADJUST_TEMPERATURE) \cup AlertsFor(NOTIFY_CRITICAL) = Alerts(CRITICAL)
    /\ Cardinality(AlertsFor(ADJUST_TEMPERATURE)) <= 1
    /\ Cardinality(AlertsFor(NOTIFY_CRITICAL)) <= 1
    /\ \A j \in Events(eq, "TELEMETRY_PROCESSED") \cap Deleted(eq) :
          parse(eq[j].body).evaluation.alert_type = CRITICAL =>
              /\ Cardinality(AlertsFor(ADJUST_TEMPERATURE)) = 1
              /\ Cardinality(AlertsFor(NOTIFY_CRITICAL)) = 1
              /\ Cardinality(Rows("temperature_actions")) = 1

\* The CRITICAL event of the reading -1 was handled without a webhook: its
\* two alert rows carry the threshold -5 and its temperature action goes
\* from -1 to -18.
C27_Witness ==
    /\ ~webhook
    /\ Dispatched(-1) # {}
    /\ \E i \in AlertsFor(ADJUST_TEMPERATURE), k \in AlertsFor(NOTIFY_CRITICAL) :
          db[i].threshold = defaultCritical /\ db[k].threshold = defaultCritical
    /\ \E i \in Rows("temperature_actions") :
          db[i].current_temp = -1 /\ db[i].target_temp = defaultTarget

\* What the reading -8 of ship_1 leaves behind at any time before and after
\* its ordinary event is handled, but for the number of webhook calls.
WarningRows ==
    /\ \A j \in OrdinaryOf(-8) :
          /\ parse(eq[j].body).evaluation.alert_type = WARNING
          /\ parse(eq[j].body).evaluation.actions = <<LOG, NOTIFY_WARNING>>
    /\ OrdinaryOf(-8) # {} =>
          /\ Rows("temperature_actions") = {}
          /\ Alerts(CRITICAL) = {}
          /\ Cardinality(HistoryOf(-8)) <= 1
          /\ Cardinality(Alerts(WARNING)) <= 1
          /\ \A i \in Alerts(WARNING) :
                /\ \E h \in HistoryOf(-8) : h < i
                /\ db[i].action_taken = NOTIFY_WARNING
                /\ db[i].ship_id = "ship_1" /\ db[i].temperature = -8
                /\ \A j \in OrdinaryOf(-8) :
                      db[i].threshold = parse(eq[j].body).evaluation.thresholds.warning
          /\ notes # <<>> => Alerts(WARNING) # {}
          /\ \A i \in DOMAIN notes : notes[i].alert_type = WARNING
    /\ Dispatched(-8) # {} =>
          /\ Cardinality(HistoryOf(-8)) = 1
          /\ Cardinality(Alerts(WARNING)) = 1

\* C28 as claimed: the WARNING event of the reading -8 leaves one history
\* row, then one WARNING alert row with the warning threshold, no
\* temperature action, and once handled exactly one webhook call, made after
\* the alert row.
C28_OneAttempt ==
    /\ WarningRows
    /\ Dispatched(-8) # {} => Len(notes) = 1

\* C28, amended: the WARNING event of the reading -8 leaves one history row,
\* then one WARNING alert row with the warning threshold, no temperature
\* action, and once handled one webhook call, made after the alert row, if
\* the webhook is configured, none if it is not.
C28_WarningDispatch ==
    /\ WarningRows
    /\ Len(notes) <= (IF webhook THEN 1 ELSE 0)
    /\ Dispatched(-8) # {} => Len(notes) = (IF webhook THEN 1 ELSE 0)

\* The WARNING event of the reading -8 was handled with the webhook
\* configured: one alert row with the threshold -10 and one webhook call.
C28_Witness ==
    /\ webhook
    /\ Dispatched(-8) # {}
    /\ \E i \in Alerts(WARNING) : db[i].threshold = defaultWarning
    /\ Len(notes) = 1 /\ notes[1].alert_type = WARNING

\* A newest-first sample that satisfies the trend condition.
Rises(sample) ==
    /\ Len(sample) >= trendMinReadings
    /\ \E P \in SUBSET (1..(Len(sample) - 1)) :
          /\ Cardinality(P) >= trendMinRising
          /\ \A i \in P : sample[i] > sample[i + 1]
    /\ sample[1] > sample[Len(sample)] + trendMinIncrease

\* C29: a trend check whose sample satisfies the trend condition adds one
\* new TREND_ANOMALY message to the EventsQueue, whatever trend events the
\* queue already holds for the ship, and leaves the earlier messages as they
\* are; so the trend events of a reading are as many as its processings
\* against a rising history.
C29_NoDeduplication ==
    [][\A w \in Workers : (TrendChecked(w) /\ Rises(wtemps[w])) =>
          /\ Len(eq') = Len(eq) + 1
          /\ \A j \in DOMAIN eq : eq'[j] = eq[j]
          /\ IsEvent(eq', Len(eq'), "TREND_ANOMALY")
          /\ parse(eq'[Len(eq')].body).telemetry.ship_id = WShip(w)
          /\ Cardinality(Events(eq', "TREND_ANOMALY")) =
                Cardinality(Events(eq, "TREND_ANOMALY")) + 1]_vars

\* One reading was processed twice against the same rising history: the
\* EventsQueue holds two trend events with the same body.
C29_Witness ==
    /\ Len(tq) = 1
    /\ \E i, j \in Events(eq, "TREND_ANOMALY") : i < j /\ eq[i].body = eq[j].body

\* --------------------------------------------------- the ingestor, called

\* Request bodies: each field absent or falsy or set; temp absent, null, a
\* number, or the string "-8", "8x", "abc", "Infinity", " 8", "-" or "".
Requests ==
    {[fn |-> "POST /telemetry",
      body |-> [ship_id |-> s, timestamp |-> t, temp |-> v, sensor_id |-> d]] :
        s \in {Undefined, Str(""), Str("ship_1")},
        t \in {Undefined, Num(0), Num(1)},
        v \in {Undefined, JsonNull, Num(0), Num(-8),
               Text(<<"-", "8">>), Text(<<"8", "x">>), Text(<<"a", "b", "c">>),
               Text(<<"I", "n", "f", "i", "n", "i", "t", "y">>), Text(<<" ", "8">>),
               Text(<<"U+00A0", "\f", "8">>), Text(<<"-", "1", "e", "9", "9", "9">>),
               Text(<<"-">>), Text(<<>>)},
        d \in {Undefined, Str(""), Str("s1")}}

\* One request reaches the ingestor; the TelemetryQueue is empty; the send
\* may fail.
InitPost ==
    /\ Setup({}, {}, <<>>, MaxFaults)
    /\ webhook = TRUE
    /\ redis = SeedRedis
    /\ setup = <<>>
    /\ db = <<>>
    /\ windowStart = 0
    /\ call \in Requests
    /\ ret = <<>>

NextPost ==
    \/ PostRequest
    \/ PostRequestSendThrows

SpecPost == InitPost /\ [][NextPost]_vars

\* A temp that is a number, or a string that is the text of a number, white
\* space before it or not.
NumericTemp(v) ==
    \/ v.type = "number"
    \/ /\ v.type = "string"
       /\ \E n \in -9..9 : TrimStart[v.chars] = toString(n)

\* C30: once POST /telemetry has answered, the answer is 200 with exactly one
\* message in the TelemetryQueue if and only if the request has a ship_id, a
\* timestamp and a numeric temp and the send did not fail; a request without
\* ship_id or timestamp or without a numeric temp is answered 400 and the
\* queue is left as it was; a failed send is answered 500 with nothing in the
\* queue; a message of a request without sensor_id carries the ship_id
\* followed by _default_sensor.
C30_Gateway ==
    Returned("POST /telemetry") =>
        LET body == call.body
            valid == /\ ~Falsy(body.ship_id) /\ ~Falsy(body.timestamp)
                     /\ NumericTemp(body.temp)
        IN  /\ (ret[1].status = 200 /\ Len(tq) = 1) <=> (valid /\ faults = MaxFaults)
            /\ ~valid => ret[1].status = 400 /\ tq = <<>>
            /\ (valid /\ faults < MaxFaults) => ret[1].status = 500 /\ tq = <<>>
            /\ \A m \in DOMAIN tq :
                  /\ parse(tq[m].body).ship_id = body.ship_id.value
                  /\ parse(tq[m].body).timestamp = body.timestamp.value
                  /\ body.sensor_id = Undefined =>
                        parse(tq[m].body).sensor_id = body.ship_id.value \o "_default_sensor"

\* ------------------------------------------------------ with shutdown

\* The pipeline whose processes can be sent SIGINT or SIGTERM at any time:
\* one Worker and one Executor, no call fails but those made on a client
\* that shutdown() has closed.  Between the signal and the exit the loops go
\* on: an item whose call was rejected is skipped, and with nothing on
\* processed[] the loop polls and receives again.
InitStop ==
    /\ \E reading \in Readings : Setup({"w1"}, {"x1"}, <<reading>>, 0)
    /\ webhook = TRUE
    /\ redis = SeedRedis
    /\ setup = <<>>
    /\ db = SeedHistory
    /\ windowStart = -2
    /\ call = <<>>
    /\ ret = <<>>

NextStop ==
    \/ PostTelemetry
    \/ TimePasses
    \/ Timeouts
    \/ \E S \in SUBSET Visible(tq) : WReceive("w1", S)
    \/ WReceiveNothing("w1")
    \/ WGet("w1")
    \/ WPublish("w1")
    \/ WQuery("w1")
    \/ WTrend("w1")
    \/ WDelete("w1")
    \/ WNothingToDelete("w1")
    \/ WSignal("w1")
    \/ WQuitReturns("w1")
    \/ WShutdown("w1")
    \/ WRefused("w1")
    \/ \E S \in SUBSET Visible(eq) : EReceive("x1", S)
    \/ EReceiveNothing("x1")
    \/ EProcess("x1")
    \/ EStore("x1")
    \/ EStoreRefused("x1")
    \/ ENotify("x1")
    \/ EDelete("x1")
    \/ ENothingToDelete("x1")
    \/ ESignal("x1")
    \/ EShutdown("x1")
    \/ ERefused("x1")

\* The steps the Worker's loop takes by itself once it has a batch, a signal
\* received or not: the loop runs until process.exit.
WorkerGoesOn(w) ==
    \/ WGet(w)
    \/ WPublish(w)
    \/ WQuery(w)
    \/ WTrend(w)
    \/ WRefused(w)
    \/ WDelete(w)
    \/ WNothingToDelete(w)

ExecutorGoesOn(x) ==
    \/ EProcess(x)
    \/ EStore(x)
    \/ EStoreRefused(x)
    \/ ERefused(x)
    \/ ENotify(x)
    \/ EDelete(x)
    \/ ENothingToDelete(x)

\* The loops keep running while their process lives; a message that is
\* visible again and again while the consumer polls is delivered; the
\* visibility timeout of a message nobody works on elapses.  Nothing is
\* asked of the signal, of the calls shutdown() awaits or of the exit.
FairnessStop ==
    /\ WF_vars(WorkerGoesOn("w1"))
    /\ WF_vars(ExecutorGoesOn("x1"))
    /\ \A m \in TelemetryIds :
          /\ SF_vars(\E S \in SUBSET Visible(tq) : m \in S /\ WReceive("w1", S))
          /\ WF_vars(~HeldByWorker(m) /\ TelemetryTimeout(m))
    /\ \A m \in EventIds :
          /\ SF_vars(\E S \in SUBSET Visible(eq) : m \in S /\ EReceive("x1", S))
          /\ WF_vars(~HeldByExecutor(m) /\ EventTimeout(m))

SpecStop == InitStop /\ [][NextStop]_vars /\ FairnessStop

\* C25: the step in which a consumer exits changes no queue and no store, so
\* every message it held and had not deleted is in its queue as it was; no
\* reading is deleted from the TelemetryQueue without its ordinary event
\* published, no event from the EventsQueue without its actions carried out;
\* and a message in flight that no running consumer holds becomes visible
\* again.
C25_Shutdown ==
    /\ [](/\ \A m \in Acknowledged : OrdinaryFor(parse(tq[m].body)) # {}
          /\ \A j \in Deleted(eq) : Parses(eq[j].body) /\ Effected(parse(eq[j].body)))
    /\ [][/\ \A w \in Workers : (wpc[w] # "stopped" /\ wpc'[w] = "stopped") =>
                /\ Queues' = Queues /\ Stores' = Stores
                /\ \A m \in Range(wbatch[w]) :
                      tq[m].state # "deleted" => WithheldTelemetry(m)' \/ m \in Visible(tq')
          /\ \A x \in Executors : (epc[x] # "stopped" /\ epc'[x] = "stopped") =>
                /\ Queues' = Queues /\ Stores' = Stores
                /\ \A j \in Range(ebatch[x]) :
                      eq[j].state # "deleted" => WithheldEvent(j)' \/ j \in Visible(eq')]_vars
    /\ \A m \in TelemetryIds : (m \in DOMAIN tq /\ WithheldTelemetry(m)) ~> (m \in Visible(tq))
    /\ \A j \in EventIds : (j \in DOMAIN eq /\ WithheldEvent(j)) ~> (j \in Visible(eq))

\* The Worker exited inside its for loop, once redis.quit() and db.end() had
\* returned: the reading it held is in flight in the TelemetryQueue, held by
\* no process, and its ordinary event was already published.
C25_Witness ==
    /\ wpc["w1"] = "stopped"
    /\ stopping["w1"] = "end"
    /\ \E m \in Accepted : WithheldTelemetry(m) /\ OrdinaryFor(parse(tq[m].body)) # {}

\* ------------------------------------------- when the batch delete fails

\* C31: a consumer that ended its for loop with messages on processed[] and
\* does not go to the next poll goes to the backoff wait, and that step
\* removes nothing from either queue and changes no store; from the wait it
\* polls again; a reading that is then in flight with no Worker holding it
\* and one ordinary event published gets a second ordinary event, and an
\* ordinary event that is then in flight with no Executor holding it and one
\* row of its reading written gets a second row.
C31_AckFailure ==
    /\ [][/\ \A w \in Workers :
              (wpc[w] = "item" /\ WLoopEnded(w) /\ wdone[w] # <<>>
                 /\ wpc'[w] \notin {"item", "receive"}) =>
                  /\ wpc'[w] = "backoff"
                  /\ Queues' = Queues /\ Stores' = Stores
                  /\ \A m \in Range(wdone[w]) \ Deleted(tq) :
                        WithheldTelemetry(m)' \/ m \in Visible(tq')
          /\ \A x \in Executors :
              (epc[x] = "item" /\ ELoopEnded(x) /\ edone[x] # <<>>
                 /\ epc'[x] \notin {"item", "receive"}) =>
                  /\ epc'[x] = "backoff"
                  /\ Queues' = Queues /\ Stores' = Stores
                  /\ \A j \in Range(edone[x]) \ Deleted(eq) :
                        WithheldEvent(j)' \/ j \in Visible(eq')]_vars
    /\ \A m \in TelemetryIds :
          (/\ m \in Accepted /\ WithheldTelemetry(m)
           /\ \E w \in Workers : wpc[w] = "backoff"
           /\ Cardinality(OrdinaryFor(parse(tq[m].body))) = 1)
              ~> (m \in Accepted /\ Cardinality(OrdinaryFor(parse(tq[m].body))) >= 2)
    /\ \A j \in EventIds :
          (/\ j \in Events(eq, "TELEMETRY_PROCESSED") /\ WithheldEvent(j)
           /\ \E x \in Executors : epc[x] = "backoff"
           /\ Cardinality(Copies(parse(eq[j].body).telemetry)) = 1)
              ~> (/\ j \in Events(eq, "TELEMETRY_PROCESSED")
                  /\ Cardinality(Copies(parse(eq[j].body).telemetry)) >= 2)

\* The Executor's delete call threw after its event was handled to the end:
\* the Executor waits in backoff, the event is in flight and held by nobody,
\* one row of its reading and its alert row are written.
C31_Witness ==
    /\ epc["x1"] = "backoff"
    /\ \E j \in Events(eq, "TELEMETRY_PROCESSED") :
          /\ WithheldEvent(j)
          /\ Effected(parse(eq[j].body))
          /\ Cardinality(Copies(parse(eq[j].body).telemetry)) = 1

\* ------------------------------------------------ a store call that fails

\* One Worker and one Executor run; one sensor of ship_1 posts a reading: -8,
\* -1 or one beyond the range of the temperature column.
InitRetry ==
    /\ \E reading \in Readings \cup {Hot("ship_1")} :
          Setup({"w1"}, {"x1"}, <<reading>>, MaxFaults)
    /\ webhook = TRUE
    /\ redis = SeedRedis
    /\ setup = <<>>
    /\ db = SeedHistory
    /\ windowStart = -2
    /\ call = <<>>
    /\ ret = <<>>

SpecRetry == InitRetry /\ [][Next]_vars /\ Fairness

\* An ordinary event that is in flight with no Executor holding it after a
\* processing that wrote the row of its reading and did not get to the end.
HalfDone(j) ==
    /\ j \in Events(eq, "TELEMETRY_PROCESSED")
    /\ WithheldEvent(j)
    /\ Cardinality(Copies(parse(eq[j].body).telemetry)) = 1
    /\ ~Effected(parse(eq[j].body))

\* C32: when a store call of processEvent throws, every row written so far,
\* those of the same event included, stays where it is, and the event is
\* neither put on processed[] nor deleted; an event left half done that way
\* is handled again from its first action and acknowledged, and the row of
\* its reading is then in telemetry_readings at least twice.
C32_NoRollback ==
    /\ [][\A x \in Executors :
            (/\ epc[x] = "event" /\ Head(eops[x]).fn # "sendNotification"
             /\ epc'[x] = "item" /\ edone'[x] = edone[x]) =>
                /\ db' = db /\ notes' = notes /\ eq' = eq
                /\ ECurrent(x) \notin Range(edone'[x])
                /\ eq'[ECurrent(x)].state # "deleted"]_vars
    /\ \A j \in EventIds :
          HalfDone(j) ~> (/\ j \in Events(eq, "TELEMETRY_PROCESSED") \cap Deleted(eq)
                          /\ Effected(parse(eq[j].body))
                          /\ Cardinality(Copies(parse(eq[j].body).telemetry)) >= 2)

\* The CRITICAL event of the reading -1 was acknowledged after its
\* storeTemperatureAction call threw once: two rows of the reading and two
\* ADJUST_TEMPERATURE alerts are written, and one temperature action.
C32_Witness ==
    /\ faults = 0
    /\ Dispatched(-1) # {}
    /\ Cardinality(HistoryOf(-1)) = 2
    /\ Cardinality(AlertsFor(ADJUST_TEMPERATURE)) = 2
    /\ Cardinality(Rows("temperature_actions")) = 1
    /\ Cardinality(AlertsFor(NOTIFY_CRITICAL)) = 1

\* -------------------------------------------- events counted by attempts

\* C33: the ordinary events of a reading grow by one in every step in which
\* a Worker's processing of it gets past publishEvent, and in no other step;
\* a trend check that throws leaves the event of its attempt in the
\* EventsQueue and the reading unacknowledged; so a reading has one ordinary
\* event per attempt that got past publishEvent, and never more than one
\* plus the failures that happened.
C33_EventPerAttempt ==
    /\ [](\A m \in Accepted :
            Cardinality(OrdinaryFor(parse(tq[m].body))) <= 1 + MaxFaults - faults)
    /\ [][/\ \A m \in Accepted :
              LET passes == \E w \in Workers : WorkerAt(w, m) /\ wpc'[w] = "query"
              IN  Cardinality(OrdinaryFor(parse(tq[m].body)))' =
                      Cardinality(OrdinaryFor(parse(tq[m].body))) + (IF passes THEN 1 ELSE 0)
          /\ \A w \in Workers :
              (wpc[w] \in {"query", "trend"} /\ wpc'[w] = "item" /\ wdone'[w] = wdone[w]) =>
                  /\ OrdinaryFor(parse(tq[WCurrent(w)].body)) # {}
                  /\ Queues' = Queues
                  /\ WCurrent(w) \notin Range(wdone'[w])]_vars

\* The only reading was acknowledged after one failure that came after its
\* first publishEvent: two ordinary events were published for it.
C33_Witness ==
    /\ Len(tq) = 1 /\ faults = 0
    /\ \A j \in DOMAIN eq : Parses(eq[j].body)
    /\ \E m \in Acknowledged : Cardinality(OrdinaryFor(parse(tq[m].body))) = 1 + MaxFaults

\* --------------------------------------------- no reading without an event

\* C34: a message is put on a Worker's processed[] only in the step in which
\* the trend check of that message returns, and then an ordinary event of its
\* reading is in the EventsQueue or was in it; a message is deleted from the
\* TelemetryQueue only while on some Worker's processed[]; no message ever
\* leaves the EventsQueue other than by being deleted by an Executor; so
\* every accepted reading is not deleted from the TelemetryQueue or has an
\* ordinary event that is in the EventsQueue or was deleted from it by an
\* Executor.
C34_EventBeforeAck ==
    /\ [](\A m \in Accepted :
            \/ m \in Visible(tq) \cup InFlight(tq)
            \/ \E j \in OrdinaryFor(parse(tq[m].body)) :
                  eq[j].state \in {"visible", "inflight", "deleted"})
    /\ [][/\ \A w \in Workers : \A m \in Range(wdone'[w]) \ Range(wdone[w]) :
                /\ wpc[w] = "trend" /\ WCurrent(w) = m
                /\ faults' = faults
                /\ OrdinaryFor(parse(tq[m].body)) # {}
          /\ \A m \in Removed(tq, tq') :
                /\ \E w \in Workers : m \in Range(wdone[w])
                /\ Parses(tq[m].body) /\ OrdinaryFor(parse(tq[m].body)) # {}
          /\ Len(eq') >= Len(eq)
          /\ \A j \in DOMAIN eq : eq'[j].body = eq[j].body
          /\ \A j \in Removed(eq, eq') : \E x \in Executors : j \in Range(edone[x])]_vars

\* A reading was acknowledged and every ordinary event published for it has
\* been handled and deleted by an Executor.
C34_Witness ==
    \E m \in Acknowledged :
        /\ OrdinaryFor(parse(tq[m].body)) # {}
        /\ OrdinaryFor(parse(tq[m].body)) \subseteq Deleted(eq)

\* ------------------------------------ what the trend check depends on

\* The temperatures of the rows telemetry_readings holds for a ship inside
\* the window, latest timestamp first, at most trendMaxReadings of them.
StoredSample(shipId) ==
    LET C == TrendCandidates(shipId)
        n == IF Cardinality(C) < trendMaxReadings THEN Cardinality(C) ELSE trendMaxReadings
        rows == CHOOSE s \in [1..n -> C] :
                    /\ \A k \in 1..(n - 1) : db[s[k]].timestamp > db[s[k + 1]].timestamp
                    /\ \A c \in C \ Range(s) : \A k \in 1..n :
                          db[c].timestamp < db[s[k]].timestamp
    IN  [k \in 1..n |-> db[rows[k]].temperature]

\* C35: the sample of a trend check is made of the rows telemetry_readings
\* holds for the ship when the query runs, whatever the temp of the reading
\* being processed, whose own row is part of it only if the Executor has
\* written it by then; and whether a trend event is published, and the temp
\* and the message it carries, are determined by the ship and that sample.
C35_TrendFromHistory ==
    [][\A w \in Workers :
          /\ (wpc[w] = "query" /\ wpc'[w] = "trend") =>
                /\ wtemps'[w] = StoredSample(WShip(w))
                /\ Recorded(WCurrent(w)) = {} =>
                      LET earlier == {i \in DOMAIN SeedHistory :
                                         SeedHistory[i].ship_id = WShip(w)}
                      IN  /\ Len(wtemps'[w]) <= Cardinality(earlier)
                          /\ \A k \in DOMAIN wtemps'[w] :
                                \E i \in earlier : wtemps'[w][k] = SeedHistory[i].temperature
          /\ TrendChecked(w) =>
                /\ Published("TREND_ANOMALY") # {} <=> Rises(wtemps[w])
                /\ \A j \in Published("TREND_ANOMALY") :
                      /\ parse(eq'[j].body).telemetry =
                            [ship_id |-> WShip(w), temp |-> wtemps[w][1]]
                      /\ parse(eq'[j].body).evaluation.message.increase =
                            wtemps[w][1] - wtemps[w][Len(wtemps[w])]]_vars

\* The trend check of the reading returned before the Executor wrote the
\* row of the reading: no trend event was published.
C35_Witness ==
    \E m \in Accepted :
        /\ m \in Range(wdone["w1"])
        /\ Recorded(m) = {}
        /\ Events(eq, "TREND_ANOMALY") = {}
        /\ parse(tq[m].body).temp = -1

\* ------------------------------------------------- two readings in a batch

\* One Worker and one Executor run; the sensors post two readings, which the
\* Worker may receive in one batch or in two; nothing fails.  cache-setup
\* has run on the seed file, or it has run on a seed file without ship_2 and
\* runs meanwhile on one that lists ship_2.
InitBatch ==
    /\ \E script \in {<<Hot("ship_1"), Warm("ship_1")>>, <<Warm("ship_1"), Hot("ship_2")>>} :
          Setup({"w1"}, {"x1"}, script, 0)
    /\ webhook = TRUE
    /\ \/ redis = SeedRedis /\ setup = <<>>
       \/ redis = HalfSeededRedis /\ setup = ClientSets(SeedOnly("ship_2"))
    /\ db = SeedHistory
    /\ windowStart = -2
    /\ call = <<>>
    /\ ret = <<>>

SpecBatch == InitBatch /\ [][NextE2E]_vars

\* The reading at position p of Worker w's batch.
BatchReading(w, p) == parse(tq[wbatch[w][p]].body)

\* C36: an ordinary event is published only as the for loop leaves the start
\* of an item for the trend check of that item, a trend event only as a trend
\* check returns and directly after the ordinary event of the same item;
\* while a Worker is in its for loop the readings before the current item
\* have their ordinary event, those after it have none, and the current one
\* has it exactly from the start of its trend check on; and the ordinary
\* events of a batch are in the EventsQueue in the order of the batch.
C36_PublicationOrder ==
    /\ [](/\ \A j \in Events(eq, "TREND_ANOMALY") :
                /\ j > 1 /\ IsEvent(eq, j - 1, "TELEMETRY_PROCESSED")
                /\ parse(eq[j - 1].body).telemetry.ship_id = parse(eq[j].body).telemetry.ship_id
          /\ \A w \in Workers : \A p \in DOMAIN wbatch[w] :
                /\ p < wi[w] => OrdinaryFor(BatchReading(w, p)) # {}
                /\ p > wi[w] => OrdinaryFor(BatchReading(w, p)) = {}
                /\ p = wi[w] =>
                      (OrdinaryFor(BatchReading(w, p)) # {} <=> wpc[w] \in {"query", "trend"})
                /\ \A q \in DOMAIN wbatch[w] : p < q =>
                      \A a \in OrdinaryFor(BatchReading(w, p)) :
                          \A b \in OrdinaryFor(BatchReading(w, q)) : a < b)
    /\ [][/\ Published("TELEMETRY_PROCESSED") # {} =>
                \E w \in Workers :
                    /\ wpc[w] = "item" /\ wpc'[w] = "query" /\ wi'[w] = wi[w]
                    /\ eq' = Append(eq, Message(stringify(TelemetryEvent(BatchReading(w, wi[w]), wreads[w]))))
          /\ Published("TREND_ANOMALY") # {} =>
                \E w \in Workers :
                    /\ wpc[w] = "trend" /\ wpc'[w] = "item" /\ wi'[w] = wi[w] + 1
                    /\ Len(eq') = Len(eq) + 1
                    /\ IsEvent(eq', Len(eq'), "TREND_ANOMALY")
                    /\ \E a \in OrdinaryFor(BatchReading(w, wi[w])) :
                          \A j \in Events(eq, "TELEMETRY_PROCESSED") : j <= a]_vars

\* The Worker is at the trend check of the second reading of a batch of two:
\* the EventsQueue holds the ordinary event of the first, the trend event of
\* the first, and the ordinary event of the second, in that order.
C36_Witness ==
    /\ Len(wbatch["w1"]) = 2 /\ wi["w1"] = 2 /\ wpc["w1"] = "trend"
    /\ Len(eq) = 3
    /\ IsEvent(eq, 1, "TELEMETRY_PROCESSED")
    /\ IsEvent(eq, 2, "TREND_ANOMALY")
    /\ IsEvent(eq, 3, "TELEMETRY_PROCESSED")
    /\ parse(eq[1].body).telemetry = BatchReading("w1", 1)
    /\ parse(eq[3].body).telemetry = BatchReading("w1", 2)

\* ------------------------------------- events with actions of any name

\* Events of a WARNING reading of ship_1 whose action list holds up to
\* MaxActions names, known to processEvent or not, and whose evaluation has
\* no message or the empty string as message.
ForeignEvents ==
    LET telemetry == [ship_id |-> "ship_1", sensor_id |-> "s1", temp |-> -8, timestamp |-> 1]
        thresholds == [warning |-> defaultWarning, critical |-> defaultCritical,
                       target |-> defaultTarget]
        lists == UNION {[1..n -> {LOG, NOTIFY_WARNING, ADJUST_TEMPERATURE, "REBOOT"}] :
                          n \in 0..MaxActions}
    IN  {[event_type |-> "TELEMETRY_PROCESSED", telemetry |-> telemetry,
          evaluation |-> [alert_type |-> WARNING, thresholds |-> thresholds,
                          actions |-> actions]] : actions \in lists}
        \cup {[event_type |-> "TELEMETRY_PROCESSED", telemetry |-> telemetry,
               evaluation |-> [alert_type |-> WARNING, thresholds |-> thresholds,
                               actions |-> actions, message |-> EmptyString]] :
                  actions \in lists}

\* The event of `call` is sent to the EventsQueue.
SendEvent ==
    /\ call # <<>> /\ eq = <<>>
    /\ eq' = SendMessage(eq, stringify(call))
    /\ UNCHANGED <<redis, setup, windowStart, tq, db, notes, wpc, wbatch, wdone, wi, wtemps, wreads,
                   epc, ebatch, edone, eops, ei, sensors, faults, webhook, stopping, call, ret>>

\* One Executor runs; one event reaches the EventsQueue; nothing fails.
InitDispatch ==
    /\ Setup({}, {"x1"}, <<>>, 0)
    /\ webhook \in BOOLEAN
    /\ redis = SeedRedis
    /\ setup = <<>>
    /\ db = SeedHistory
    /\ windowStart = -2
    /\ call \in ForeignEvents
    /\ ret = <<>>

NextDispatch ==
    \/ SendEvent
    \/ \E S \in SUBSET Visible(eq) : EReceive("x1", S)
    \/ EReceiveNothing("x1")
    \/ EProcess("x1")
    \/ EStore("x1")
    \/ ENotify("x1")
    \/ EDelete("x1")

SpecDispatch == InitDispatch /\ [][NextDispatch]_vars

\* The names of an action list that processEvent knows, in list order.
Known(actions) == SelectSeq(actions, LAMBDA a : a \in actionTypes)

\* The rows the store calls among `calls` insert for the event e, in order.
RowsOfCalls(e, calls) ==
    LET stores == SelectSeq(calls, LAMBDA c : c.fn # "sendNotification")
    IN  [k \in DOMAIN stores |->
            IF stores[k].fn = "storeTelemetry" THEN TelemetryRow(e.telemetry)
            ELSE IF stores[k].fn = "storeAlert"
                 THEN AlertRow(e.telemetry, e.evaluation, stores[k].action)
            ELSE ActionRow(e.telemetry, e.evaluation.thresholds.target)]

\* C37: handling an event whose action list holds no name processEvent
\* knows changes no table and calls no webhook, and the step that starts
\* processEvent puts the event on processed[]; for any action list, once the
\* event is deleted the rows written and the webhook calls made are those of
\* the list without its unknown names.
C37_UnknownActions ==
    /\ [](\A j \in DOMAIN eq :
            LET e == parse(eq[j].body)
                known == Known(e.evaluation.actions)
            IN  /\ (known = <<>> => (db = SeedHistory /\ notes = <<>>))
                /\ j \in Deleted(eq) =>
                      /\ db = SeedHistory \o RowsOfCalls(e, processEvent(known))
                      /\ Len(notes) = Cardinality({k \in DOMAIN processEvent(known) :
                                           processEvent(known)[k].fn = "sendNotification"}))
    /\ [][\A x \in Executors :
            (/\ epc[x] = "item" /\ ~ELoopEnded(x)
             /\ (epc'[x] # epc[x] \/ ei'[x] # ei[x])
             /\ Known(EEvent(x).evaluation.actions) = <<>>) =>
                /\ edone'[x] = Append(edone[x], ECurrent(x))
                /\ epc'[x] = "item" /\ ei'[x] = ei[x] + 1
                /\ db' = db /\ notes' = notes]_vars

\* An event whose two actions are both unknown to processEvent was handled
\* and deleted: no row was written and no webhook call made.
C37_Witness ==
    /\ Deleted(eq) # {}
    /\ \A j \in Deleted(eq) :
          /\ Len(parse(eq[j].body).evaluation.actions) = MaxActions
          /\ Known(parse(eq[j].body).evaluation.actions) = <<>>
    /\ db = SeedHistory /\ notes = <<>>

\* The rows of telemetry_readings the pipeline wrote, and the rows of a ship.
HistoryWritten == {i \in Rows("telemetry_readings") : i > Len(SeedHistory)}
HistoryRowsOf(shipId) == {i \in Rows("telemetry_readings") : db[i].ship_id = shipId}

\* C38: every row of telemetry_readings written by the pipeline is the row
\* of a reading in the TelemetryQueue; the table changes only as a
\* storeTelemetry call for a TELEMETRY_PROCESSED event with LOG in its list
\* returns, by the row of that event's reading; no step of the handling of a
\* TREND_ANOMALY event changes it; and the sample of a trend check holds at
\* most as many temperatures as the ship has seed rows and accepted readings.
C38_HistoryFromReadings ==
    /\ [](/\ \A i \in HistoryWritten : \E m \in Accepted : db[i] = TelemetryRow(parse(tq[m].body))
          /\ \A w \in Workers : wpc[w] = "trend" =>
                Len(wtemps[w]) <=
                    Cardinality({i \in DOMAIN SeedHistory : SeedHistory[i].ship_id = WShip(w)})
                    + Cardinality({m \in Accepted : parse(tq[m].body).ship_id = WShip(w)}))
    /\ [][/\ Rows("telemetry_readings")' # Rows("telemetry_readings") =>
                \E x \in Executors :
                    /\ epc[x] = "event" /\ Head(eops[x]).fn = "storeTelemetry"
                    /\ EEvent(x).event_type = "TELEMETRY_PROCESSED"
                    /\ \E k \in DOMAIN EEvent(x).evaluation.actions :
                          EEvent(x).evaluation.actions[k] = LOG
                    /\ db' = Append(db, TelemetryRow(EEvent(x).telemetry))
          /\ \A x \in Executors :
                (/\ epc[x] \in {"item", "event"} /\ ~ELoopEnded(x)
                 /\ Parses(eq[ECurrent(x)].body)
                 /\ EEvent(x).event_type = "TREND_ANOMALY"
                 /\ (epc'[x] # epc[x] \/ ei'[x] # ei[x] \/ eops'[x] # eops[x])) =>
                    /\ Rows("telemetry_readings")' = Rows("telemetry_readings")
                    /\ \A i \in Rows("telemetry_readings") : db'[i] = db[i]]_vars

\* The trend event of the reading -1 of ship_1 was handled and deleted, its
\* alert row is stored, and the rows of ship_1 in telemetry_readings are its
\* two seed rows and the one of the reading.
C38_Witness ==
    /\ Events(eq, "TREND_ANOMALY") \cap Deleted(eq) # {}
    /\ AlertsFor(TREND_ALERT) # {}
    /\ Cardinality(HistoryWritten) = 1
    /\ \A i \in HistoryWritten : db[i].temperature = -1
    /\ Cardinality(HistoryRowsOf("ship_1")) = 3

\* ------------------------------------------ alerts and actions under faults

\* One Worker and one Executor run; a sensor of ship_1 posts one reading, -1,
\* -19, -8 or one beyond the range of the temperature column; up to MaxFaults
\* calls fail; the webhook is configured.
InitAlerts ==
    /\ \E reading \in Readings \cup {Hot("ship_1"), Cold("ship_1")} :
          Setup({"w1"}, {"x1"}, <<reading>>, MaxFaults)
    /\ webhook = TRUE
    /\ redis = SeedRedis
    /\ setup = <<>>
    /\ db = SeedHistory
    /\ windowStart = -2
    /\ call = <<>>
    /\ ret = <<>>

SpecAlerts == InitAlerts /\ [][Next]_vars

\* C39: no alert row has alert_type NORMAL, and no event of a NORMAL
\* reading leaves any alert or temperature action; every temperature action
\* is PENDING and carries ship and temp of a TELEMETRY_PROCESSED event in the
\* EventsQueue whose alert_type is CRITICAL; and there are never more
\* temperature actions than CRITICAL alert rows.
C39_AlertsAndActions ==
    /\ Alerts(NORMAL) = {}
    /\ (\A j \in Events(eq, "TELEMETRY_PROCESSED") :
            parse(eq[j].body).evaluation.alert_type = NORMAL) =>
          (Rows("alerts") \subseteq Alerts(TREND_ANOMALY) /\ Rows("temperature_actions") = {})
    /\ \A i \in Rows("temperature_actions") :
          /\ db[i].status = "PENDING"
          /\ \E j \in Events(eq, "TELEMETRY_PROCESSED") :
                /\ parse(eq[j].body).evaluation.alert_type = CRITICAL
                /\ parse(eq[j].body).telemetry.ship_id = db[i].ship_id
                /\ parse(eq[j].body).telemetry.temp = db[i].current_temp
    /\ Cardinality(Rows("temperature_actions")) <= Cardinality(Alerts(CRITICAL))

\* The CRITICAL event of the reading -1 was handled twice, the first time
\* without its acknowledgement: two PENDING temperature actions and four
\* CRITICAL alert rows exist.
C39_Witness ==
    /\ faults = 0
    /\ Dispatched(-1) # {}
    /\ Cardinality(Rows("temperature_actions")) = 2
    /\ \A i \in Rows("temperature_actions") : db[i].status = "PENDING"
    /\ Cardinality(Alerts(CRITICAL)) = 4

\* The bounds on message numbers cover every run.
MessageIdsCover == DOMAIN tq \subseteq TelemetryIds /\ DOMAIN eq \subseteq EventIds

====
